---- MODULE Spec2Model ----
(***************************************************************************)
(* Data-resolution-and-analysis layer of Industrial_analysis:              *)
(* MappedDataLoader (name resolver + table loader with cache), the query   *)
(* layer built on it, data_query.DataQuery and DataAnalyzer.               *)
(*                                                                         *)
(* File and logical names are sequences of one-character strings, so that  *)
(* str.lower(), the `in` substring test and str.endswith() are computed on *)
(* the characters as Python computes them.                                 *)
(***************************************************************************)
EXTENDS Integers, Sequences, FiniteSets, TLC

VARIABLES
    file_mapping,   \* MappedDataLoader.file_mapping, set once by __init__
    listing,        \* the data root: the existing file names, in directory-listing order
    data_cache,     \* MappedDataLoader.data_cache: logical name -> table reference (NoRef: no key)
    heap,           \* the DataFrame objects parsed so far, per logical name, in allocation order
    reads,          \* per logical name, the requests that read its file from disk
    last            \* the outcome of the last request made since the data root last changed

vars == <<file_mapping, listing, data_cache, heap, reads, last>>

(***************************************************************************)
(* Bounds                                                                  *)
(***************************************************************************)
MaxFiles == 2       \* files present in the data root at a time
MaxReads == 2       \* disk reads counted per logical name
MaxLen   == 3       \* rows of the generated data files

(***************************************************************************)
(* Names                                                                   *)
(***************************************************************************)
n_g      == <<"g">>
n_g_csv  == <<"g", ".", "c", "s", "v">>
n_Ag_csv == <<"A", "G", ".", "c", "s", "v">>
n_m_csv  == <<"m", ".", "c", "s", "v">>
n_g_xls  == <<"g", ".", "x", "l", "s">>

\* The absent value of a name-valued field.
NoName == << >>

\* The files that may appear in the data root.
Files == {n_g, n_g_csv, n_Ag_csv, n_m_csv, n_g_xls}

\* The logical names callers ask for.
LogicalNames == {n_g, n_g_csv, n_g_xls}

Names == Files \cup LogicalNames

ext_csv  == <<".", "c", "s", "v">>
ext_xlsx == <<".", "x", "l", "s", "x">>
ext_xls  == <<".", "x", "l", "s">>

\* str.lower() on one character.
LowerChar(c) ==
    CASE c = "A" -> "a"
      [] c = "G" -> "g"
      [] OTHER   -> c

\* str.lower()
lower(s) == [i \in 1..Len(s) |-> LowerChar(s[i])]

\* Python's `sub in s` on strings.
contains(sub, s) ==
    \E i \in 0..(Len(s) - Len(sub)) : SubSeq(s, i + 1, i + Len(sub)) = sub

\* str.endswith()
endswith(s, suffix) ==
    /\ Len(s) >= Len(suffix)
    /\ SubSeq(s, Len(s) - Len(suffix) + 1, Len(s)) = suffix

Range(s) == {s[i] : i \in 1..Len(s)}

\* Path.exists() of data_root_path / name
exists(name) == name \in Range(listing)

\* data_root_path.glob("*.csv"): the listing order, restricted to the pattern.
glob_csv == SelectSeq(listing, LAMBDA f : endswith(f, ext_csv))

(***************************************************************************)
(* Alias configuration                                                     *)
(***************************************************************************)
\* The states of the mapping configuration file at construction time:
\*   "missing"      open() raises;
\*   "empty"        yaml.safe_load returns None;
\*   "aliases"      a mapping whose entries all carry actual_file;
\*   "no_actual"    a mapping with an entry that carries only a description.
ConfigFiles == {"missing", "empty", "aliases", "no_actual"}

\* A loaded mapping: is_none, or a dict with `keys`, entry n holding the
\* field actual_file = actual[n] (NoName: the entry has no such field).
Mapping(ks, af) ==
    [is_none |-> FALSE, keys |-> ks,
     actual |-> [n \in Names |-> IF n \in ks THEN af[n] ELSE NoName]]

EmptyMapping == Mapping({}, [n \in Names |-> NoName])

NoneMapping == [is_none |-> TRUE, keys |-> {}, actual |-> [n \in Names |-> NoName]]

AliasEntries ==
    [n \in Names |-> CASE n = n_g     -> n_m_csv
                       [] n = n_g_csv -> n_m_csv
                       [] OTHER       -> NoName]

\* An alias table that crosses the extensions: a .xls name for a text file
\* and a .csv name for a workbook.
CrossAliases ==
    [n \in Names |-> CASE n = n_g_xls -> n_g_csv
                       [] n = n_g_csv -> n_g_xls
                       [] OTHER       -> NoName]

\* MappedDataLoader.__init__: the alias table as loaded from the file.
LoadMapping(config) ==
    CASE config = "missing"   -> EmptyMapping
      [] config = "empty"     -> NoneMapping
      [] config = "aliases"   -> Mapping({n_g, n_g_csv}, AliasEntries)
      [] config = "no_actual" -> Mapping({n_g}, [n \in Names |-> NoName])

(***************************************************************************)
(* Name Resolver                                                           *)
(***************************************************************************)
Resolved(name, accesses) == [exc |-> "", name |-> name, fs |-> accesses]
ResolveRaises(e)         == [exc |-> e, name |-> NoName, fs |-> {}]

\* First glob("*.csv") entry whose lower-cased name contains the lower-cased
\* logical name; NoName when there is none.
FirstMatch(logical_name) ==
    LET hits == SelectSeq(glob_csv, LAMBDA f : contains(lower(logical_name), lower(f)))
    IN  IF hits = << >> THEN NoName ELSE Head(hits)

\* Variants of the resolution order.
resolve_exists_first(logical_name) ==
    IF file_mapping.is_none THEN ResolveRaises("TypeError")
    ELSE IF exists(logical_name) THEN Resolved(logical_name, {"exists"})
    ELSE IF logical_name \in file_mapping.keys
         THEN Resolved(file_mapping.actual[logical_name], {"exists"})
    ELSE IF FirstMatch(logical_name) # NoName
         THEN Resolved(FirstMatch(logical_name), {"exists", "glob"})
    ELSE Resolved(logical_name, {"exists", "glob"})

resolve_fuzzy_first(logical_name) ==
    IF file_mapping.is_none THEN ResolveRaises("TypeError")
    ELSE IF logical_name \in file_mapping.keys
         THEN Resolved(file_mapping.actual[logical_name], {})
    ELSE IF FirstMatch(logical_name) # NoName
         THEN Resolved(FirstMatch(logical_name), {"glob"})
    ELSE Resolved(logical_name, {"exists", "glob"})

\* MappedDataLoader._resolve_file_name
resolve_file_name(logical_name) ==
    IF file_mapping.is_none
        THEN ResolveRaises("TypeError")      \* `in` on None
    ELSE IF logical_name \in file_mapping.keys
        THEN IF file_mapping.actual[logical_name] = NoName
                THEN ResolveRaises("KeyError")   \* ["actual_file"] on an entry without it
                ELSE Resolved(file_mapping.actual[logical_name], {})
    ELSE IF exists(logical_name)
        THEN Resolved(logical_name, {"exists"})
    ELSE IF FirstMatch(logical_name) # NoName
        THEN Resolved(FirstMatch(logical_name), {"exists", "glob"})
    ELSE Resolved(logical_name, {"exists", "glob"})

(***************************************************************************)
(* Files and tables                                                        *)
(***************************************************************************)
\* Cell values.
Str(s) == [tag |-> "str", s |-> s, n |-> 0]
Num(n) == [tag |-> "int", s |-> "", n |-> n]
Ts(n)  == [tag |-> "ts", s |-> "", n |-> n]
NaT    == [tag |-> "NaT", s |-> "", n |-> 0]
NaN    == [tag |-> "NaN", s |-> "", n |-> 0]

isna(v) == v.tag \in {"NaT", "NaN"}

Table(cols, types, rs) == [columns |-> cols, dtypes |-> types, rows |-> rs]

NoTable == Table(<< >>, << >>, << >>)

DateV(dates, values) ==
    Table(<<"date", "v">>, [date |-> "object", v |-> "number"],
          [i \in 1..Len(dates) |-> [date |-> dates[i], v |-> values[i]]])

\* Data files for the statistics. The generated ones hold, newest row
\* first, a date column of consecutive years from 2018, a column v of small
\* numbers and a column w counting the rows; the name of the file spells v.
StatValues == 0..2
Series == UNION {[1..k -> StatValues] : k \in 1..MaxLen}
SeriesFile(s) == <<"s">> \o [i \in 1..Len(s) |-> ToString(s[i])] \o <<".", "c", "s", "v">>

n_t_csv == <<"t", ".", "c", "s", "v">>     \* v rises by one a year; w is v shuffled
n_p_csv == <<"p", ".", "c", "s", "v">>     \* two years of mean 10, two of mean 15
n_o_csv == <<"o", ".", "c", "s", "v">>     \* a column with one far value
n_z_csv == <<"z", ".", "c", "s", "v">>     \* ten equal values and one other
n_d_csv == <<"d", ".", "c", "s", "v">>     \* repeated dates and one that is no date

StatFiles == {SeriesFile(s) : s \in Series} \cup {n_t_csv, n_p_csv, n_o_csv, n_z_csv}

YearStr(y) == ToString(y)

DateVW(years, vs, ws) ==
    Table(<<"date", "v", "w">>, [date |-> "object", v |-> "number", w |-> "number"],
          [i \in 1..Len(vs) |-> [date |-> Str(YearStr(years[i])), v |-> Num(vs[i]),
                                 w |-> Num(ws[i])]])

OnlyV(vs) == Table(<<"v">>, [v |-> "number"], [i \in 1..Len(vs) |-> [v |-> Num(vs[i])]])

StatTable(f) ==
    CASE f = n_t_csv -> DateVW(<<2018, 2019, 2020, 2021, 2022>>, <<1, 2, 3, 4, 5>>,
                               <<1, 4, 2, 3, 5>>)
      [] f = n_p_csv -> DateVW(<<2018, 2019, 2020, 2021>>, <<5, 15, 10, 20>>, <<1, 1, 2, 3>>)
      [] f = n_o_csv -> OnlyV(<<1, 2, 3, 4, 100>>)
      [] f = n_z_csv -> OnlyV(<<0, 0, 0, 0, 0, 1, 0, 0, 0, 0, 0>>)
      [] OTHER ->
            LET s == CHOOSE s \in Series : SeriesFile(s) = f
                n == Len(s)
            IN  DateVW([i \in 1..n |-> 2018 + n - i], s, [i \in 1..n |-> i])

\* What the bytes of a file are: text that every encoding of the fallback
\* list decodes, text that only GBK decodes, bytes that no encoding decodes,
\* or a spreadsheet workbook.
FileKind(f) ==
    CASE f = n_m_csv  -> "gbk"
      [] f = n_Ag_csv -> "binary"
      [] f = n_g_xls  -> "workbook"
      [] OTHER        -> "ascii"

\* The table a successful parse of the file gives.
FileTable(f) ==
    CASE f = n_g_csv  -> DateV(<<Str("2020"), Str("2019")>>, <<Num(1), Num(2)>>)
      [] f = n_m_csv  -> DateV(<<Str("2021"), Str("n/a")>>, <<Num(3), Num(4)>>)
      [] f = n_g      -> DateV(<<Str("2018")>>, <<NaN>>)
      [] f = n_g_xls  -> Table(<<"v">>, [v |-> "number"], <<[v |-> Num(7)]>>)
      [] f = n_d_csv  -> DateV(<<Str("2020"), Str("2019"), Str("2020"), Str("n/a"), Str("2019")>>,
                               <<Num(1), Num(2), Num(3), Num(4), Num(5)>>)
      [] f \in StatFiles -> StatTable(f)
      [] OTHER        -> NoTable

\* pd.read_csv(path, encoding=...) returns a table (otherwise UnicodeDecodeError).
read_csv_ok(f, encoding) ==
    \/ FileKind(f) = "ascii"
    \/ FileKind(f) = "gbk" /\ encoding = "gbk"

\* pd.read_excel(path) returns a table (otherwise it raises).
read_excel_ok(f) == FileKind(f) = "workbook"

\* Variant: GBK is tried before UTF-8.
encodings_gbk_first == <<"gbk", "utf-8", "gb2312">>

encodings == <<"utf-8", "gbk", "gb2312">>

\* for encoding in encodings: try read_csv ... break / except UnicodeDecodeError:
\* continue -- the encodings the loop passes to read_csv, from the i-th on.
RECURSIVE TryEncodings(_, _)
TryEncodings(f, i) ==
    IF i > Len(encodings) THEN << >>
    ELSE IF read_csv_ok(f, encodings[i]) THEN <<encodings[i]>>
    ELSE <<encodings[i]>> \o TryEncodings(f, i + 1)

\* The position of the first encoding of the list that parses the file; 0: none does.
FirstEncoding(f) ==
    LET ok == {i \in 1..Len(encodings) : read_csv_ok(f, encodings[i])}
    IN  IF ok = {} THEN 0 ELSE CHOOSE i \in ok : \A j \in ok : i <= j

(***************************************************************************)
(* Table Loader                                                            *)
(***************************************************************************)
\* The outcome of a call: `outcome` is "return", "raise" (an exception leaves
\* the call) or "payload_error" (a failure payload is returned); `exc` and
\* `at` are the exception type and the source line that raises or returns
\* the failure; `fs` the filesystem accesses made; `nreads` the parser calls.
Outcome(o, e, line, actual, isHit, accesses, n, t) ==
    [outcome |-> o, exc |-> e, at |-> line, actual |-> actual, hit |-> isHit,
     fs |-> accesses, nreads |-> n, table |-> t]

\* A reference to a DataFrame object: the gen-th table parsed for `name`.
Ref(file_name, k) == [name |-> file_name, gen |-> k]
NoRef == [name |-> NoName, gen |-> 0]

\* The object a reference points to.
Deref(r) == heap[r.name][r.gen]

\* `file_name in self.data_cache`
in_cache(file_name) == data_cache[file_name] # NoRef

\* Variant: the parser is chosen from the logical name alone.
LoadOutcome_by_name(file_name) ==
    LET r      == resolve_file_name(file_name)
        actual == r.name
        k      == FirstEncoding(actual)
    IN  IF r.exc # ""
            THEN Outcome("raise", r.exc, IF r.exc = "TypeError" THEN 34 ELSE 35,
                         NoName, FALSE, r.fs, 0, NoTable)
        ELSE IF in_cache(file_name)
            THEN Outcome("return", "", 0, actual, TRUE, r.fs, 0, NoTable)
        ELSE IF ~exists(actual)
            THEN Outcome("raise", "FileNotFoundError", 64, actual, FALSE,
                         r.fs \cup {"exists"}, 0, NoTable)
        ELSE IF endswith(file_name, ext_csv)
            THEN IF k = 0
                    THEN Outcome("raise", "ValueError", 80, actual, FALSE,
                                 r.fs \cup {"exists", "read"}, Len(encodings), NoTable)
                    ELSE Outcome("return", "", 0, actual, FALSE,
                                 r.fs \cup {"exists", "read"}, k, FileTable(actual))
        ELSE IF endswith(file_name, ext_xlsx) \/ endswith(file_name, ext_xls)
            THEN IF read_excel_ok(actual)
                    THEN Outcome("return", "", 0, actual, FALSE,
                                 r.fs \cup {"exists", "read"}, 1, FileTable(actual))
                    ELSE Outcome("raise", "ValueError", 82, actual, FALSE,
                                 r.fs \cup {"exists", "read"}, 1, NoTable)
        ELSE Outcome("raise", "ValueError", 84, actual, FALSE,
                     r.fs \cup {"exists"}, 0, NoTable)

\* MappedDataLoader.load_data, up to the cache update.
LoadOutcome(file_name) ==
    LET r      == resolve_file_name(file_name)
        actual == r.name
        is_csv == endswith(file_name, ext_csv) \/ endswith(actual, ext_csv)
        is_xl  == \/ endswith(file_name, ext_xlsx) \/ endswith(file_name, ext_xls)
                  \/ endswith(actual, ext_xlsx)    \/ endswith(actual, ext_xls)
        k      == FirstEncoding(actual)
    IN  IF r.exc # ""
            THEN Outcome("raise", r.exc, IF r.exc = "TypeError" THEN 34 ELSE 35,
                         NoName, FALSE, r.fs, 0, NoTable)
        ELSE IF in_cache(file_name)
            THEN Outcome("return", "", 0, actual, TRUE, r.fs, 0, NoTable)
        ELSE IF ~exists(actual)
            THEN Outcome("raise", "FileNotFoundError", 64, actual, FALSE,
                         r.fs \cup {"exists"}, 0, NoTable)
        ELSE IF is_csv
            THEN IF k = 0
                    THEN Outcome("raise", "ValueError", 80, actual, FALSE,
                                 r.fs \cup {"exists", "read"}, Len(encodings), NoTable)
                    ELSE Outcome("return", "", 0, actual, FALSE,
                                 r.fs \cup {"exists", "read"}, k, FileTable(actual))
        ELSE IF is_xl
            THEN IF read_excel_ok(actual)
                    THEN Outcome("return", "", 0, actual, FALSE,
                                 r.fs \cup {"exists", "read"}, 1, FileTable(actual))
                    ELSE Outcome("raise", "ValueError", 82, actual, FALSE,
                                 r.fs \cup {"exists", "read"}, 1, NoTable)
        ELSE Outcome("raise", "ValueError", 84, actual, FALSE,
                     r.fs \cup {"exists"}, 0, NoTable)

\* The call parsed the file and stores the table.
Stores(res) == res.outcome = "return" /\ ~res.hit

\* The reference of the object a parse allocates.
NewRef(file_name) == Ref(file_name, Len(heap[file_name]) + 1)

\* Variant: a cache hit hands out a copy of the cached table.
RefOf_copy_on_hit(file_name, res) ==
    IF res.outcome # "return" THEN NoRef ELSE NewRef(file_name)

\* The reference load_data returns (NoRef when it raises).
RefOf(file_name, res) ==
    IF res.outcome # "return" THEN NoRef
    ELSE IF res.hit THEN data_cache[file_name]
    ELSE NewRef(file_name)

\* Variant: the table is stored under the resolved file name.
CacheAfter_by_actual(file_name, res) ==
    IF Stores(res) /\ res.actual \in DOMAIN data_cache
        THEN [data_cache EXCEPT ![res.actual] = NewRef(file_name)]
        ELSE data_cache

\* Variant: a failed load drops the cache.
CacheAfter_reset_on_error(file_name, res) ==
    IF Stores(res) THEN [data_cache EXCEPT ![file_name] = NewRef(file_name)]
    ELSE IF res.outcome = "raise" THEN [n \in LogicalNames |-> NoRef]
    ELSE data_cache

\* self.data_cache[file_name] = df, reached only after a successful parse.
CacheAfter(file_name, res) ==
    IF Stores(res) THEN [data_cache EXCEPT ![file_name] = NewRef(file_name)]
    ELSE data_cache

\* The DataFrame objects after the call: a parse allocates one.
HeapAfter(file_name, res) ==
    IF Stores(res) THEN [heap EXCEPT ![file_name] = Append(@, res.table)] ELSE heap

\* The record of a request kept in `last`.
Last(op, file_name, res, ref, shape, items) ==
    [op |-> op, name |-> file_name, outcome |-> res.outcome, exc |-> res.exc,
     at |-> res.at, actual |-> res.actual, ref |-> ref, hit |-> res.hit,
     fs |-> res.fs, nreads |-> res.nreads, fault |-> shape, payload |-> items]

\* The branch of the try block a load takes and the encodings it passes to
\* read_csv: "" when the call ends before the try block.
Parsing(file_name, res) ==
    LET parser == IF res.hit \/ res.at \in {34, 35, 64} THEN ""
                  ELSE IF endswith(file_name, ext_csv) \/ endswith(res.actual, ext_csv)
                      THEN "read_csv"
                  ELSE IF \/ endswith(file_name, ext_xlsx) \/ endswith(file_name, ext_xls)
                          \/ endswith(res.actual, ext_xlsx) \/ endswith(res.actual, ext_xls)
                      THEN "read_excel"
                  ELSE "none"
    IN  [parser |-> parser,
         tried  |-> IF parser = "read_csv" THEN TryEncodings(res.actual, 1) ELSE << >>]

\* MappedDataLoader.load_data
load_data(file_name) ==
    LET res == LoadOutcome(file_name)
    IN  /\ data_cache' = CacheAfter(file_name, res)
        /\ heap' = HeapAfter(file_name, res)
        /\ last' = Last("load_data", file_name, res, RefOf(file_name, res), "",
                        Parsing(file_name, res))
        /\ UNCHANGED <<file_mapping, listing>>

\* DataQuery.get_file_path (mapped_data_loader): resolution alone.
get_file_path(file_name) ==
    LET r   == resolve_file_name(file_name)
        res == IF r.exc # ""
                 THEN Outcome("raise", r.exc, IF r.exc = "TypeError" THEN 34 ELSE 35,
                              NoName, FALSE, r.fs, 0, NoTable)
                 ELSE Outcome("return", "", 0, r.name, FALSE, r.fs, 0, NoTable)
    IN  /\ last' = Last("get_file_path", file_name, res, NoRef, "", {})
        /\ UNCHANGED <<file_mapping, listing, data_cache, heap>>

(***************************************************************************)
(* Query Layer (mapped_data_loader.DataQuery)                              *)
(***************************************************************************)
has_col(t, c) == c \in Range(t.columns)

\* The strings pandas parses as a date (a year alone is a valid ISO 8601 date).
IsDate(str) == str \in {"2018", "2019", "2020", "2021", "2022"}

Year(str) ==
    CASE str = "2018" -> 2018
      [] str = "2019" -> 2019
      [] str = "2020" -> 2020
      [] str = "2021" -> 2021
      [] str = "2022" -> 2022
      [] OTHER        -> 0

\* pd.to_datetime(value, errors='coerce') on one cell.
to_datetime_coerce(v) ==
    IF v.tag = "ts" THEN v
    ELSE IF v.tag = "str" /\ IsDate(v.s) THEN Ts(Year(v.s))
    ELSE NaT

is_datetime(t, c) == t.dtypes[c] = "datetime64"

\* df[c] = pd.to_datetime(df[c], errors='coerce'): the column of the SAME
\* DataFrame object is replaced.
coerce_column(t, c) ==
    [t EXCEPT !.dtypes = [@ EXCEPT ![c] = "datetime64"],
              !.rows = [i \in 1..Len(@) |-> [@[i] EXCEPT ![c] = to_datetime_coerce(@)]]]

\* The columns whose lower-cased name contains 'date', '时间', '日期' or 'time'.
TimeLikeColumns == {"date"}

\* The time column get_time_series_data works on; "" when it finds none.
PickTimeColumn(t, time_col) ==
    IF has_col(t, time_col) THEN time_col
    ELSE LET possible == SelectSeq(t.columns, LAMBDA c : c \in TimeLikeColumns)
         IN  IF possible = << >> THEN "" ELSE Head(possible)

\* The table load_data hands back.
LoadedTable(file_name, res) ==
    IF res.hit THEN Deref(data_cache[file_name]) ELSE res.table

\* A filter condition: a dict with the given keys (all bound to val), or a
\* bare value.
Dict(ks, v) == [is_dict |-> TRUE, keys |-> ks, val |-> v]
Scalar(v)   == [is_dict |-> FALSE, keys |-> {}, val |-> v]

\* The operator keys, in the order of the if/elif chain.
Recognized == <<"eq", "ne", "gt", "lt", "gte", "lte", "in", "contains">>

\* Variant: a dict without a recognized key is compared for equality.
FirstKey_default_eq(cond) ==
    LET hits == SelectSeq(Recognized, LAMBDA k : k \in cond.keys)
    IN  IF hits = << >> THEN "eq" ELSE Head(hits)

\* Variant: the last recognized key of the chain is the one applied.
FirstKey_last(cond) ==
    LET hits == SelectSeq(Recognized, LAMBDA k : k \in cond.keys)
    IN  IF hits = << >> THEN "" ELSE hits[Len(hits)]

\* The branch of the chain a dict condition takes; "" when it takes none.
FirstKey(cond) ==
    LET hits == SelectSeq(Recognized, LAMBDA k : k \in cond.keys)
    IN  IF hits = << >> THEN "" ELSE Head(hits)

\* The sort key of a cell string: year strings order as their years, and
\* "n/a" follows every digit string.
StrKey(str) == IF IsDate(str) THEN Year(str) ELSE 9999

\* How pandas orders a cell against a filter value: "lt", "eq", "gt", "na"
\* (a missing cell compares False) or "TypeError".
Cmp(v, x) ==
    LET a == IF v.tag = "str" THEN StrKey(v.s) ELSE v.n
        b == IF x.tag = "str" THEN StrKey(x.s) ELSE x.n
    IN  IF isna(v) THEN "na"
        ELSE IF \/ v.tag = "int" /\ x.tag = "int"
                \/ v.tag = "str" /\ x.tag = "str"
                \/ v.tag = "ts"  /\ x.tag = "str" /\ IsDate(x.s)
            THEN IF a < b THEN "lt" ELSE IF a > b THEN "gt" ELSE "eq"
        ELSE "TypeError"

\* re.search(pat, s) for the literal patterns of the requests.
HasSub(s, pat) ==
    CASE pat = "20" -> IsDate(s)
      [] pat = "n/" -> s = "n/a"
      [] OTHER      -> s = pat

\* The mask of one clause on one cell.
Keep(v, key, x) ==
    CASE key = "eq"       -> ~isna(v) /\ v = x
      [] key = "ne"       -> isna(v) \/ v # x
      [] key = "gt"       -> Cmp(v, x) = "gt"
      [] key = "lt"       -> Cmp(v, x) = "lt"
      [] key = "gte"      -> Cmp(v, x) \in {"gt", "eq"}
      [] key = "lte"      -> Cmp(v, x) \in {"lt", "eq"}
      [] key = "in"       -> ~isna(v) /\ v = x
      [] key = "contains" -> v.tag = "str" /\ HasSub(v.s, x.s)
      [] OTHER            -> TRUE

\* The exception the comparison of a clause raises on the column, "" when none:
\* an ordering of a numeric column against a string or of a datetime column
\* against a number is refused for the whole column, of an object column cell
\* by cell; .str exists on object columns only.
ClauseRaises(t, col, key, x) ==
    IF key \in {"gt", "lt", "gte", "lte"}
        THEN IF \/ t.dtypes[col] = "number" /\ x.tag # "int"
                \/ t.dtypes[col] = "datetime64" /\ ~(x.tag = "str" /\ IsDate(x.s))
                \/ \E i \in 1..Len(t.rows) : Cmp(t.rows[i][col], x) = "TypeError"
             THEN "TypeError" ELSE ""
    ELSE IF key = "contains"
        THEN IF t.dtypes[col] # "object" THEN "AttributeError"
             ELSE IF x.tag # "str" THEN "TypeError" ELSE ""
    ELSE ""

\* The source line of each branch of the chain.
BranchLine(key) ==
    CASE key = "eq" -> 201 [] key = "ne" -> 203 [] key = "gt" -> 205 [] key = "lt" -> 207
      [] key = "gte" -> 209 [] key = "lte" -> 211 [] key = "in" -> 213
      [] key = "contains" -> 215 [] OTHER -> 217

\* The result of a query on a table: the exception and its line, or the
\* table, and whether a new frame was made.
QueryResult(e, line, t, isNew) == [exc |-> e, at |-> line, table |-> t, narrowed |-> isNew]

\* df[available_columns]
Project(t, cols) ==
    Table(cols, [c \in Range(cols) |-> t.dtypes[c]],
          [i \in 1..Len(t.rows) |-> [c \in Range(cols) |-> t.rows[i][c]]])

\* The loop over filters.items(), from clause i on; check_cols is the test
\* `col not in df.columns` that the mapped query layer makes.
RECURSIVE FilterLoop(_, _, _, _, _)
FilterLoop(t, filters, i, isNew, check_cols) ==
    IF i > Len(filters) THEN QueryResult("", 0, t, isNew)
    ELSE LET col  == filters[i][1]
             cond == filters[i][2]
             key  == IF cond.is_dict THEN FirstKey(cond) ELSE "eq"
         IN  IF check_cols /\ ~has_col(t, col)
                 THEN FilterLoop(t, filters, i + 1, isNew, check_cols)
             ELSE IF cond.is_dict /\ key = ""
                 THEN FilterLoop(t, filters, i + 1, isNew, check_cols)
             ELSE IF ~has_col(t, col)
                 THEN QueryResult("KeyError", BranchLine(IF cond.is_dict THEN key ELSE ""),
                                  NoTable, FALSE)
             ELSE IF ClauseRaises(t, col, key, cond.val) # ""
                 THEN QueryResult(ClauseRaises(t, col, key, cond.val),
                                  BranchLine(IF cond.is_dict THEN key ELSE ""), NoTable, FALSE)
             ELSE FilterLoop([t EXCEPT !.rows = SelectSeq(@, LAMBDA r : Keep(r[col], key, cond.val))],
                             filters, i + 1, TRUE, check_cols)

Min(a, b) == IF a <= b THEN a ELSE b

\* df.head(limit) when limit is truthy (limit > 0 here).
Head_n(q, limit) ==
    IF q.exc # "" \/ limit = 0 THEN q
    ELSE QueryResult("", 0, [q.table EXCEPT !.rows = SubSeq(@, 1, Min(limit, Len(@)))], TRUE)

\* Variant: the projection of data_loader.DataQuery, df[columns].
Query_strict_projection(t, columns, filters, limit) ==
    IF \E i \in 1..Len(columns) : ~has_col(t, columns[i])
        THEN QueryResult("KeyError", 100, NoTable, FALSE)
        ELSE Head_n(FilterLoop(IF columns # << >> THEN Project(t, columns) ELSE t,
                               filters, 1, columns # << >>, TRUE), limit)

\* Variant: the rows are filtered on the loaded table, then projected.
Query_filters_first(t, columns, filters, limit) ==
    LET available == SelectSeq(columns, LAMBDA c : has_col(t, c))
        projects  == columns # << >> /\ available # << >>
        f         == FilterLoop(t, filters, 1, FALSE, TRUE)
    IN  IF f.exc # "" THEN f
        ELSE Head_n(QueryResult("", 0, IF projects THEN Project(f.table, available)
                                                   ELSE f.table,
                                projects \/ f.narrowed), limit)

\* DataQuery.query_data (mapped_data_loader), after the table is loaded.
Query(t, columns, filters, limit) ==
    LET available == SelectSeq(columns, LAMBDA c : has_col(t, c))
        projects  == columns # << >> /\ available # << >>
    IN  Head_n(FilterLoop(IF projects THEN Project(t, available) ELSE t,
                          filters, 1, projects, TRUE), limit)

\* The request and result of a query, as `last` keeps them.
Queried(columns, filters, limit, res, q) ==
    [columns |-> columns, filters |-> filters, limit |-> limit,
     result |-> IF res.outcome = "return" /\ q.exc = "" THEN q.table ELSE NoTable]

\* DataQuery.query_data
query_data(file_name, columns, filters, limit) ==
    LET res  == LoadOutcome(file_name)
        q    == Query(LoadedTable(file_name, res), columns, filters, limit)
        res2 == IF res.outcome = "return" /\ q.exc # ""
                   THEN [res EXCEPT !.outcome = "raise", !.exc = q.exc, !.at = q.at]
                   ELSE res
    IN  /\ data_cache' = CacheAfter(file_name, res)
        /\ heap' = HeapAfter(file_name, res)
        /\ last' = Last("query_data", file_name, res2,
                        IF res2.outcome = "return" /\ ~q.narrowed
                            THEN RefOf(file_name, res) ELSE NoRef,
                        "", Queried(columns, filters, limit, res, q))
        /\ UNCHANGED <<file_mapping, listing>>

\* Variant: a row without a timestamp passes a time bound.
InRange_keeps_null(ts, start_date, end_date) ==
    /\ start_date # 0 => (isna(ts) \/ ts.n >= start_date)
    /\ end_date # 0   => (isna(ts) \/ ts.n <= end_date)

\* df[time_col] >= pd.to_datetime(start_date), df[time_col] <= pd.to_datetime(end_date),
\* each applied when the bound is given (0: None); NaT compares False.
InRange(ts, start_date, end_date) ==
    /\ start_date # 0 => (~isna(ts) /\ ts.n >= start_date)
    /\ end_date # 0   => (~isna(ts) /\ ts.n <= end_date)

\* The row orders df.sort_values(time_col) can give: ascending timestamps
\* with the rows without one last, in their former order. The default kind
\* is 'quicksort', which does not fix the order of equal timestamps.
SortOrders(rows, time_col) ==
    IF rows = << >> THEN {<< >>}
    ELSE {p \in Permutations(1..Len(rows)) :
            \A i, j \in 1..Len(rows) :
                i < j => LET a == rows[p[i]][time_col]
                             b == rows[p[j]][time_col]
                         IN  /\ isna(a) => isna(b) /\ p[i] < p[j]
                             /\ (~isna(a) /\ ~isna(b)) => a.n <= b.n}

\* The request and the result of a time slice, as `last` keeps them.
Sliced(time_col, value_cols, start_date, end_date, t) ==
    [time_col |-> time_col, value_cols |-> value_cols, start_date |-> start_date,
     end_date |-> end_date, result |-> t]

\* DataQuery.get_time_series_data
get_time_series_data(file_name, time_col, value_cols, start_date, end_date) ==
    LET res   == LoadOutcome(file_name)
        ref   == RefOf(file_name, res)
        t     == LoadedTable(file_name, res)
        tc    == PickTimeColumn(t, time_col)
        heap1 == HeapAfter(file_name, res)
        res2  == IF res.outcome = "return" /\ tc = ""
                    THEN [res EXCEPT !.outcome = "raise", !.exc = "ValueError", !.at = 240]
                    ELSE res
        ok    == res.outcome = "return" /\ tc # ""
        t1    == IF ok /\ ~is_datetime(t, tc) THEN coerce_column(t, tc) ELSE t
        kept  == IF ok THEN SelectSeq(t1.rows, LAMBDA r : InRange(r[tc], start_date, end_date))
                 ELSE << >>
        cols  == <<tc>> \o SelectSeq(value_cols, LAMBDA c : has_col(t, c))
    IN  /\ data_cache' = CacheAfter(file_name, res)
        /\ heap' = IF ok /\ ~is_datetime(t, tc)
                      THEN [heap1 EXCEPT ![ref.name][ref.gen] = t1]
                      ELSE heap1
        \* the result is a new frame, df[[time_col] + available_value_cols]
        /\ \E p \in SortOrders(kept, tc) :
              last' = Last("get_time_series_data", file_name, res2, NoRef, "",
                           Sliced(tc, value_cols, start_date, end_date,
                                  IF ok THEN Project([t1 EXCEPT !.rows = [i \in 1..Len(kept) |-> kept[p[i]]]],
                                                     cols)
                                  ELSE NoTable))
        /\ UNCHANGED <<file_mapping, listing>>

\* MappedDataLoader.get_data_summary: loads only when the key is absent.
loader_summary(file_name) ==
    IF in_cache(file_name)
        THEN Outcome("return", "", 0, NoName, TRUE, {}, 0, NoTable)
        ELSE LoadOutcome(file_name)

loader_get_data_summary(file_name) ==
    LET res == loader_summary(file_name)
    IN  /\ data_cache' = CacheAfter(file_name, res)
        /\ heap' = HeapAfter(file_name, res)
        /\ last' = Last("MappedDataLoader.get_data_summary", file_name, res,
                        RefOf(file_name, res), "", {})
        /\ UNCHANGED <<file_mapping, listing>>

(***************************************************************************)
(* data_loader.DataLoader and its DataQuery, built anew for each request   *)
(***************************************************************************)
\* DataLoader.load_data on an empty cache: the path is data_root_path/file_name
\* and a csv file is read as UTF-8 only.
legacy_load(file_name) ==
    IF ~exists(file_name)
        THEN Outcome("raise", "FileNotFoundError", 29, file_name, FALSE, {"exists"}, 0, NoTable)
    ELSE IF endswith(file_name, ext_csv)
        THEN IF read_csv_ok(file_name, "utf-8")
                THEN Outcome("return", "", 0, file_name, FALSE, {"exists", "read"}, 1,
                             FileTable(file_name))
                ELSE Outcome("raise", "UnicodeDecodeError", 33, file_name, FALSE,
                             {"exists", "read"}, 1, NoTable)
    ELSE IF endswith(file_name, ext_xlsx) \/ endswith(file_name, ext_xls)
        THEN IF read_excel_ok(file_name)
                THEN Outcome("return", "", 0, file_name, FALSE, {"exists", "read"}, 1,
                             FileTable(file_name))
                ELSE Outcome("raise", "ValueError", 35, file_name, FALSE,
                             {"exists", "read"}, 1, NoTable)
    ELSE Outcome("raise", "ValueError", 37, file_name, FALSE, {"exists"}, 0, NoTable)

\* DataQuery.query_data (data_loader), after the table is loaded: df[columns]
\* and a filter loop that tests no column; its lines are those of the mapped
\* query layer less 94.
LegacyQuery(t, columns, filters, limit) ==
    IF \E i \in 1..Len(columns) : ~has_col(t, columns[i])
        THEN QueryResult("KeyError", 100, NoTable, FALSE)
        ELSE LET q == Head_n(FilterLoop(IF columns # << >> THEN Project(t, columns) ELSE t,
                                        filters, 1, columns # << >>, FALSE), limit)
             IN  [q EXCEPT !.at = IF @ = 0 THEN 0 ELSE @ - 94]

\* DataQuery(DataLoader(data_root)).query_data
legacy_query_data(file_name, columns, filters, limit) ==
    LET res  == legacy_load(file_name)
        q    == LegacyQuery(res.table, columns, filters, limit)
        res2 == IF res.outcome = "return" /\ q.exc # ""
                   THEN [res EXCEPT !.outcome = "raise", !.exc = q.exc, !.at = q.at]
                   ELSE res
    IN  /\ last' = Last("DataLoader.query_data", file_name, res2, NoRef, "",
                        Queried(columns, filters, limit, res, q))
        /\ UNCHANGED <<file_mapping, listing, data_cache, heap>>

(***************************************************************************)
(* data_query.DataQuery                                                    *)
(***************************************************************************)
\* DataQuery.get_data_summary: the path is data_dir/file_name and the file is
\* parsed with pd.read_csv and its default encoding on every call.
query_summary(file_name) ==
    IF ~exists(file_name)
        THEN Outcome("payload_error", "", 51, file_name, FALSE, {"exists"}, 0, NoTable)
    ELSE IF read_csv_ok(file_name, "utf-8")
        THEN Outcome("return", "", 0, file_name, FALSE, {"exists", "read"}, 1,
                     FileTable(file_name))
    ELSE Outcome("payload_error", "", 86, file_name, FALSE, {"exists", "read"}, 1, NoTable)

query_get_data_summary(file_name) ==
    LET res == query_summary(file_name)
    IN  /\ last' = Last("DataQuery.get_data_summary", file_name, res, NoRef, "", {})
        /\ UNCHANGED <<file_mapping, listing, data_cache, heap>>

(***************************************************************************)
(* Statistics Engine (DataAnalyzer), on the table get_data_summary returns *)
(***************************************************************************)
\* The outcome of a statistic: as for Outcome, with `fault` naming the
\* data-shape problem that decided it ("" when none did) and `payload` the
\* per-column entries of a result.
Stat(o, e, line, shape, items) ==
    [outcome |-> o, exc |-> e, at |-> line, fault |-> shape, payload |-> items]

\* A cell pandas cannot parse as a date.
Unparseable(v) == v.tag = "str" /\ ~IsDate(v.s)

\* pd.to_datetime(df[c]) without errors='coerce' raises on such a cell,
\* whatever format is tried.
to_datetime_raises(t, c) ==
    ~is_datetime(t, c) /\ \E i \in 1..Len(t.rows) : Unparseable(t.rows[i][c])

\* df[[time_col, col]].dropna()
ValidRows(t, time_col, col) ==
    SelectSeq(t.rows, LAMBDA r : ~isna(to_datetime_coerce(r[time_col])) /\ ~isna(r[col]))

\* df[col].dropna()
NotNull(t, col) == SelectSeq(t.rows, LAMBDA r : ~isna(r[col]))

\* df[(df[time_col] >= start) & (df[time_col] <= end)][col].dropna()
InPeriod(t, time_col, col, period) ==
    SelectSeq(t.rows, LAMBDA r :
        LET ts == to_datetime_coerce(r[time_col])
        IN  ts.tag = "ts" /\ period[1] <= ts.n /\ ts.n <= period[2] /\ ~isna(r[col]))

\* window = min(12, len(valid_data) // 3)
MovingWindow(n) == Min(12, n \div 3)

\* Exact arithmetic for the statistics: a number is a fraction in lowest
\* terms with a positive denominator.
Abs(n) == IF n < 0 THEN -n ELSE n

RECURSIVE GCD(_, _)
GCD(a, b) == IF b = 0 THEN a ELSE GCD(b, a % b)

Frac(n, d) ==
    LET g == GCD(Abs(n), Abs(d))
        s == IF d < 0 THEN -1 ELSE 1
    IN  [num |-> (s * n) \div g, den |-> (s * d) \div g]

R(k) == [num |-> k, den |-> 1]
RAdd(a, b) == Frac(a.num * b.den + b.num * a.den, a.den * b.den)
RSub(a, b) == Frac(a.num * b.den - b.num * a.den, a.den * b.den)
RMul(a, b) == Frac(a.num * b.num, a.den * b.den)
RDiv(a, b) == Frac(a.num * b.den, a.den * b.num)
RLess(a, b) == a.num * b.den < b.num * a.den
RAbs(a) == [num |-> Abs(a.num), den |-> a.den]

RECURSIVE RSum(_)
RSum(s) == IF s = << >> THEN R(0) ELSE RAdd(Head(s), RSum(Tail(s)))

\* Series.mean()
Mean(y) == RDiv(RSum(y), R(Len(y)))

\* The numbers of a column, as fractions.
ColumnValues(rows, col) == [i \in 1..Len(rows) |-> R(rows[i][col].n)]

\* df.sort_values(time_col), the time column parsed: missing times last.
sort_values(t, time_col) ==
    LET key(r) == IF isna(to_datetime_coerce(r[time_col])) THEN 9999
                  ELSE to_datetime_coerce(r[time_col]).n
    IN  [t EXCEPT !.rows = SortSeq(@, LAMBDA a, b : key(a) < key(b))]

\* np.polyfit(x, y, 1) on x = 0..n-1: the least-squares slope and intercept.
polyfit(y) ==
    LET n   == Len(y)
        x   == [i \in 1..n |-> R(i - 1)]
        sx  == RSum(x)
        sy  == RSum(y)
        sxy == RSum([i \in 1..n |-> RMul(x[i], y[i])])
        sxx == RSum([i \in 1..n |-> RMul(x[i], x[i])])
        slope == RDiv(RSub(RMul(R(n), sxy), RMul(sx, sy)),
                      RSub(RMul(R(n), sxx), RMul(sx, sx)))
    IN  [slope |-> slope, intercept |-> RDiv(RSub(sy, RMul(slope, sx)), R(n))]

\* Variant: a slope of zero counts as falling.
Direction_never_flat(slope) == IF RLess(R(0), slope) THEN "rising" ELSE "falling"

\* "direction": "上升" if slope > 0 else "下降" if slope < 0 else "平稳"
Direction(slope) ==
    IF RLess(R(0), slope) THEN "rising" ELSE IF RLess(slope, R(0)) THEN "falling" ELSE "flat"

\* "trend_strength": "强" if abs(r_squared) > 0.7 else "中" if abs(r_squared) > 0.3 else "弱"
Strength(r_squared) ==
    IF RLess(Frac(7, 10), RAbs(r_squared)) THEN "strong"
    ELSE IF RLess(Frac(3, 10), RAbs(r_squared)) THEN "medium" ELSE "weak"

\* The linear branch of analyze_trend on the values y, in time order.
Linear(y) ==
    LET n      == Len(y)
        fit    == polyfit(y)
        fitted == [i \in 1..n |-> RAdd(RMul(fit.slope, R(i - 1)), fit.intercept)]
        y_mean == Mean(y)
        ss_tot == RSum([i \in 1..n |-> RMul(RSub(y[i], y_mean), RSub(y[i], y_mean))])
        ss_res == RSum([i \in 1..n |-> RMul(RSub(y[i], fitted[i]), RSub(y[i], fitted[i]))])
        r_squared == IF ss_tot # R(0) THEN RSub(R(1), RDiv(ss_res, ss_tot)) ELSE R(0)
    IN  [slope |-> fit.slope, intercept |-> fit.intercept, r_squared |-> r_squared,
         direction |-> Direction(fit.slope), trend_strength |-> Strength(r_squared)]

\* The loop of analyze_trend over value_cols, from position i on.
RECURSIVE TrendLoop(_, _, _, _, _, _)
TrendLoop(t, time_col, value_cols, method, i, acc) ==
    IF i > Len(value_cols) THEN Stat("return", "", 0, "", acc)
    ELSE LET col == value_cols[i]
         IN  IF ~has_col(t, col)
                 THEN TrendLoop(t, time_col, value_cols, method, i + 1, acc)
             ELSE IF Len(ValidRows(t, time_col, col)) < 2
                 THEN TrendLoop(t, time_col, value_cols, method, i + 1,
                                acc \cup {<<col, "error">>})
             ELSE IF method = "linear"
                 THEN TrendLoop(t, time_col, value_cols, method, i + 1,
                                acc \cup {<<col, "linear",
                                            Linear(ColumnValues(ValidRows(t, time_col, col), col))>>})
             ELSE IF method = "moving_average"
                 THEN IF MovingWindow(Len(ValidRows(t, time_col, col))) = 0
                         \* rolling(0).mean() is all NaN: np.polyfit gets no point
                         THEN Stat("raise", "TypeError", 99, "too few points", {})
                         ELSE TrendLoop(t, time_col, value_cols, method, i + 1,
                                        acc \cup {<<col, "moving_average">>})
             ELSE TrendLoop(t, time_col, value_cols, method, i + 1, acc)

\* DataAnalyzer.analyze_trend, after the table is obtained.
trend(t, time_col, value_cols, method) ==
    IF ~has_col(t, time_col) THEN Stat("raise", "KeyError", 38, "missing time column", {})
    ELSE IF to_datetime_raises(t, time_col) THEN Stat("raise", "ValueError", 49, "", {})
    ELSE LET r == TrendLoop(sort_values(t, time_col), time_col, value_cols, method, 1, {})
         IN  IF r.outcome = "return"
                 THEN [r EXCEPT !.payload = [value_cols |-> value_cols, results |-> @]]
                 ELSE r

\* DataAnalyzer.analyze_seasonality
seasonality(t, time_col, value_col, period) ==
    IF ~has_col(t, time_col) THEN Stat("raise", "KeyError", 122, "missing time column", {})
    ELSE IF to_datetime_raises(t, time_col) THEN Stat("raise", "ValueError", 134, "", {})
    ELSE IF period \notin {"year", "quarter", "month"} THEN Stat("raise", "ValueError", 144, "", {})
    ELSE IF ~has_col(t, value_col) THEN Stat("raise", "KeyError", 147, "missing value column", {})
    ELSE Stat("return", "", 0, "", {})

\* Variant: the change is taken relative to the second mean.
mean_change_of_second(mean1, mean2) ==
    IF mean2 # R(0) THEN RDiv(RSub(mean2, mean1), mean2) ELSE R(0)

\* (stats2["mean"] - stats1["mean"]) / stats1["mean"] if stats1["mean"] != 0 else 0
mean_change(mean1, mean2) ==
    IF mean1 # R(0) THEN RDiv(RSub(mean2, mean1), mean1) ELSE R(0)

\* The part of the comparison that the properties are about.
Comparison(period1, period2, data1, data2) ==
    [period1 |-> period1, period2 |-> period2,
     mean1 |-> Mean(data1), mean2 |-> Mean(data2),
     mean_change_rate |-> mean_change(Mean(data1), Mean(data2))]

\* DataAnalyzer.compare_periods
periods(t, time_col, value_col, period1, period2) ==
    IF ~has_col(t, time_col) THEN Stat("raise", "KeyError", 171, "missing time column", {})
    ELSE IF to_datetime_raises(t, time_col) THEN Stat("raise", "ValueError", 172, "", {})
    ELSE IF ~has_col(t, value_col) THEN Stat("raise", "KeyError", 178, "missing value column", {})
    ELSE IF \/ Len(InPeriod(t, time_col, value_col, period1)) = 0
            \/ Len(InPeriod(t, time_col, value_col, period2)) = 0
        THEN Stat("payload_error", "", 182, "empty date range", {})
    ELSE Stat("return", "", 0, "",
              Comparison(period1, period2,
                         ColumnValues(InPeriod(t, time_col, value_col, period1), value_col),
                         ColumnValues(InPeriod(t, time_col, value_col, period2), value_col)))

\* DataAnalyzer.analyze_distribution
distribution(t, column) ==
    IF ~has_col(t, column) THEN Stat("payload_error", "", 232, "missing value column", {})
    ELSE IF Len(NotNull(t, column)) = 0 THEN Stat("payload_error", "", 237, "zero valid rows", {})
    ELSE Stat("return", "", 0, "", {})

RECURSIVE IntSum(_)
IntSum(s) == IF s = << >> THEN 0 ELSE Head(s) + IntSum(Tail(s))

\* DataFrame.corr() for two columns: Pearson's r over the rows where neither
\* is missing, kept as its sign and its square (r itself needs a square
\* root); NaN when a column has no variation there.
corr(t, a, b) ==
    LET rows == SelectSeq(t.rows, LAMBDA r : ~isna(r[a]) /\ ~isna(r[b]))
        n    == Len(rows)
        x    == [i \in 1..n |-> rows[i][a].n]
        y    == [i \in 1..n |-> rows[i][b].n]
        cov  == n * IntSum([i \in 1..n |-> x[i] * y[i]]) - IntSum(x) * IntSum(y)
        vx   == n * IntSum([i \in 1..n |-> x[i] * x[i]]) - IntSum(x) * IntSum(x)
        vy   == n * IntSum([i \in 1..n |-> y[i] * y[i]]) - IntSum(y) * IntSum(y)
    IN  IF vx * vy = 0 THEN [nan |-> TRUE, positive |-> FALSE, square |-> R(0)]
        ELSE [nan |-> FALSE, positive |-> cov > 0, square |-> Frac(cov * cov, vx * vy)]

\* for i in range(len(columns)): for j in range(i+1, len(columns))
UpperPairs(columns) ==
    {<<columns[i], columns[j]>> : i \in 1..Len(columns), j \in 1..Len(columns)} \cap
    UNION {{<<columns[i], columns[j]>> : j \in (i + 1)..Len(columns)} : i \in 1..Len(columns)}

\* abs(corr_val) > 0.7 (false for NaN)
Above07(c) == ~c.nan /\ RLess(Frac(49, 100), c.square)

\* abs(corr_val) >= threshold, threshold = 0.7 (false for NaN)
AtLeast07(c) == ~c.nan /\ ~RLess(c.square, Frac(49, 100))

\* The correlated columns and the pairs reported with them.
Correlated(columns, pairs) == [columns |-> columns, pairs |-> pairs]

\* strong_correlations of DataAnalyzer.generate_correlation_matrix
strong_correlations(t, columns) ==
    {p \in UpperPairs(columns) : Above07(corr(t, p[1], p[2]))}

\* DataQuery._find_high_correlations
find_high_correlations(t, columns) ==
    {p \in UpperPairs(columns) : AtLeast07(corr(t, p[1], p[2]))}

\* DataAnalyzer.generate_correlation_matrix with an explicit column list
correlation(t, columns) ==
    IF \E i \in 1..Len(columns) : ~has_col(t, columns[i])
        THEN Stat("payload_error", "", 287, "missing value column", {})
        ELSE Stat("return", "", 0, "", Correlated(columns, strong_correlations(t, columns)))

\* df.select_dtypes(include=[np.number]).columns restricted to `columns`
\* (every numeric column when no column is asked for).
numeric_cols(t, columns) ==
    SelectSeq(IF columns = << >> THEN t.columns ELSE columns,
              LAMBDA c : has_col(t, c) /\ t.dtypes[c] = "number")

\* DataQuery.get_correlation_matrix (mapped_data_loader)
get_correlation_matrix(file_name, columns) ==
    LET res  == LoadOutcome(file_name)
        t    == LoadedTable(file_name, res)
        cols == numeric_cols(t, columns)
        res2 == IF res.outcome = "return" /\ columns # << >> /\ cols = << >>
                   THEN [res EXCEPT !.outcome = "raise", !.exc = "ValueError", !.at = 274]
                   ELSE res
    IN  /\ data_cache' = CacheAfter(file_name, res)
        /\ heap' = HeapAfter(file_name, res)
        /\ last' = Last("get_correlation_matrix", file_name, res2, NoRef, "",
                        IF res2.outcome = "return"
                            THEN Correlated(cols, find_high_correlations(t, cols))
                            ELSE {})
        /\ UNCHANGED <<file_mapping, listing>>

\* Variant: the quantile is the sample at or below its position.
quantile_lower(d, k) == R(d[(((Len(d) - 1) * k) \div 4) + 1])

\* data.quantile(k/4) of the sorted numbers d: linear interpolation between
\* the two samples around position (n - 1) * k / 4.
quantile(d, k) ==
    LET h  == (Len(d) - 1) * k
        lo == (h \div 4) + 1
    IN  IF h % 4 = 0 THEN R(d[lo])
        ELSE RAdd(R(d[lo]), RMul(Frac(h % 4, 4), RSub(R(d[lo + 1]), R(d[lo]))))

\* The non-missing numbers of a column, in row order.
Data(t, column) == [i \in 1..Len(NotNull(t, column)) |-> NotNull(t, column)[i][column].n]

\* The result of outlier detection: the flagged values in row order, their
\* count and len(outliers) / len(data) * 100.
Flagged(name, data, out) ==
    [method |-> name, outliers |-> out, outlier_count |-> Len(out),
     outlier_percentage |-> RMul(Frac(Len(out), Len(data)), R(100))]

\* method == 'iqr'
iqr(data) ==
    LET sorted      == SortSeq(data, LAMBDA a, b : a < b)
        Q1          == quantile(sorted, 1)
        Q3          == quantile(sorted, 3)
        IQR         == RSub(Q3, Q1)
        lower_bound == RSub(Q1, RMul(Frac(3, 2), IQR))
        upper_bound == RAdd(Q3, RMul(Frac(3, 2), IQR))
    IN  Flagged("IQR", data,
                SelectSeq(data, LAMBDA x : RLess(R(x), lower_bound)
                                               \/ RLess(upper_bound, R(x))))

\* method == 'zscore': z = |x - mean| / std with the sample standard deviation
\* (n - 1 in the denominator). z > 3 is decided as z^2 > 9; with one value or
\* with equal values the deviation is NaN or 0, z is NaN and nothing is flagged.
zscore(data) ==
    LET n    == Len(data)
        mean == Mean([i \in 1..n |-> R(data[i])])
        dev2(x) == RMul(RSub(R(x), mean), RSub(R(x), mean))
        var  == IF n > 1 THEN RDiv(RSum([i \in 1..n |-> dev2(data[i])]), R(n - 1))
                ELSE R(0)
    IN  Flagged("Z-score", data,
                SelectSeq(data, LAMBDA x : var # R(0) /\ RLess(R(9), RDiv(dev2(x), var))))

\* DataAnalyzer.detect_outliers
outliers(t, column, method) ==
    IF ~has_col(t, column) THEN Stat("payload_error", "", 321, "missing value column", {})
    ELSE IF method = "iqr"
        THEN IF Len(NotNull(t, column)) = 0
                THEN Stat("raise", "ZeroDivisionError", 341, "zero valid rows", {})   \* len(outliers) / len(data)
                ELSE Stat("return", "", 0, "", iqr(Data(t, column)))
    ELSE IF method = "zscore"
        THEN IF Len(NotNull(t, column)) = 0
                THEN Stat("raise", "ZeroDivisionError", 354, "zero valid rows", {})
                ELSE Stat("return", "", 0, "", zscore(Data(t, column)))
    ELSE Stat("payload_error", "", 358, "", {})

\* What DataAnalyzer.data_query is bound to: a data_query.DataQuery (as the
\* agents' tests build it) or the loader itself (as AnalysisCoordinator does).
Sources == {"DataQuery", "MappedDataLoader"}

\* df = data_result["data"] of a DataQuery summary
SummaryTable(file_name) == query_summary(file_name).table

\* A DataAnalyzer operation: get_data_summary through self.data_query, the
\* status test, then the statistic st of the summary's table. status_line is
\* the line of data_result["status"], which a loader summary has no key for.
AnalyzerRequest(op, source, file_name, st, status_line) ==
    LET q  == query_summary(file_name)
        l  == loader_summary(file_name)
    IN  IF source = "DataQuery"
        THEN /\ last' = Last(op, file_name,
                    IF q.outcome = "payload_error"
                        THEN [q EXCEPT !.at = status_line + 1]
                        ELSE [q EXCEPT !.outcome = st.outcome, !.exc = st.exc, !.at = st.at],
                    NoRef,
                    IF q.outcome = "payload_error" THEN "" ELSE st.fault,
                    IF q.outcome = "payload_error" THEN {} ELSE st.payload)
             /\ UNCHANGED <<file_mapping, listing, data_cache, heap>>
        ELSE /\ data_cache' = CacheAfter(file_name, l)
             /\ heap' = HeapAfter(file_name, l)
             /\ last' = Last(op, file_name,
                    IF l.outcome = "raise" THEN l
                    ELSE [l EXCEPT !.outcome = "raise", !.exc = "KeyError", !.at = status_line],
                    NoRef, "", {})
             /\ UNCHANGED <<file_mapping, listing>>

analyze_trend(source, file_name, time_col, value_cols, method) ==
    AnalyzerRequest("analyze_trend", source, file_name,
                    trend(SummaryTable(file_name), time_col, value_cols, method), 32)

analyze_seasonality(source, file_name, time_col, value_col, period) ==
    AnalyzerRequest("analyze_seasonality", source, file_name,
                    seasonality(SummaryTable(file_name), time_col, value_col, period), 116)

compare_periods(source, file_name, time_col, value_col, period1, period2) ==
    AnalyzerRequest("compare_periods", source, file_name,
                    periods(SummaryTable(file_name), time_col, value_col, period1, period2), 165)

analyze_distribution(source, file_name, column) ==
    AnalyzerRequest("analyze_distribution", source, file_name,
                    distribution(SummaryTable(file_name), column), 226)

generate_correlation_matrix(source, file_name, columns) ==
    AnalyzerRequest("generate_correlation_matrix", source, file_name,
                    correlation(SummaryTable(file_name), columns), 275)

detect_outliers(source, file_name, column, method) ==
    AnalyzerRequest("detect_outliers", source, file_name,
                    outliers(SummaryTable(file_name), column, method), 315)

(***************************************************************************)
(* The data root changes under the program                                 *)
(***************************************************************************)
InsertAt(s, i, x) == SubSeq(s, 1, i) \o <<x>> \o SubSeq(s, i + 1, Len(s))

\* No request has been made since the data root last changed.
NoCall ==
    [op |-> "", name |-> NoName, outcome |-> "", exc |-> "", at |-> 0,
     actual |-> NoName, ref |-> NoRef, hit |-> FALSE, fs |-> {}, nreads |-> 0,
     fault |-> "", payload |-> {}]

\* A file appears, at any place of the directory-listing order.
AddFile(f, i) ==
    /\ ~exists(f)
    /\ Len(listing) < MaxFiles
    /\ i \in 0..Len(listing)
    /\ listing' = InsertAt(listing, i, f)
    /\ last' = NoCall
    /\ UNCHANGED <<file_mapping, data_cache, heap>>

\* A file disappears.
RemoveFile(f) ==
    /\ exists(f)
    /\ listing' = SelectSeq(listing, LAMBDA x : x # f)
    /\ last' = NoCall
    /\ UNCHANGED <<file_mapping, data_cache, heap>>

\* The time columns callers name.
TimeCols == {"date", "when"}

Init ==
    /\ \E config \in ConfigFiles : file_mapping = LoadMapping(config)
    /\ listing = << >>
    /\ data_cache = [n \in LogicalNames |-> NoRef]
    /\ heap = [n \in LogicalNames |-> << >>]
    /\ reads = [n \in LogicalNames |-> 0]
    /\ last = NoCall

\* The inputs of the analysis requests.
ValueCols      == {"v", "zz"}
ValueColLists  == {<<"v">>, <<"zz", "v">>}
TrendMethods   == {"linear", "moving_average"}
PeriodKeywords == {"year", "week"}
DateRanges     == {<<2019, 2020>>, <<2030, 2031>>}
OutlierMethods == {"iqr", "zscore", "mad"}

\* The loader and the query layer built on it, over a data root that changes.
Next ==
    \/ \E f \in Files, i \in 0..MaxFiles : AddFile(f, i) /\ UNCHANGED reads
    \/ \E f \in Files : RemoveFile(f) /\ UNCHANGED reads
    \/ \E n \in LogicalNames : load_data(n) /\ UNCHANGED reads
    \/ \E n \in LogicalNames : get_file_path(n) /\ UNCHANGED reads
    \/ \E n \in LogicalNames : query_data(n, << >>, << >>, 0) /\ UNCHANGED reads
    \/ \E n \in LogicalNames, c \in TimeCols : get_time_series_data(n, c, <<"v">>, 0, 0) /\ UNCHANGED reads
    \/ \E n \in LogicalNames : loader_get_data_summary(n) /\ UNCHANGED reads

Spec == Init /\ [][Next]_vars

\* The disk reads of a request for logical name n, counted up to MaxReads.
Counted(n) ==
    /\ last'.nreads > 0 => reads[n] < MaxReads
    /\ reads' = [reads EXCEPT ![n] = IF last'.nreads > 0 THEN @ + 1 ELSE @]

\* The data root as the requests find it.
Listings ==
    {s \in UNION {[1..k -> Files] : k \in 0..MaxFiles} :
        \A i, j \in 1..Len(s) : i # j => s[i] # s[j]}

InitAnalysis ==
    /\ \E config \in ConfigFiles : file_mapping = LoadMapping(config)
    /\ listing \in Listings
    /\ data_cache = [n \in LogicalNames |-> NoRef]
    /\ heap = [n \in LogicalNames |-> << >>]
    /\ reads = [n \in LogicalNames |-> 0]
    /\ last = NoCall

\* Load, summary, query and analysis requests, with their disk reads counted.
NextIO ==
    \/ \E n \in LogicalNames : load_data(n) /\ Counted(n)
    \/ \E n \in LogicalNames : query_data(n, << >>, << >>, 0) /\ Counted(n)
    \/ \E n \in LogicalNames : loader_get_data_summary(n) /\ Counted(n)
    \/ \E n \in LogicalNames : query_get_data_summary(n) /\ Counted(n)
    \/ \E src \in Sources, n \in LogicalNames, v \in ValueCols :
          analyze_distribution(src, n, v) /\ Counted(n)

SpecIO == InitAnalysis /\ [][NextIO]_vars

\* The Statistics Engine operations, for either binding of DataAnalyzer.data_query.
NextAnalysis ==
    \/ \E src \in Sources, n \in LogicalNames, c \in TimeCols, vs \in ValueColLists,
          m \in TrendMethods : analyze_trend(src, n, c, vs, m) /\ UNCHANGED reads
    \/ \E src \in Sources, n \in LogicalNames, c \in TimeCols, v \in ValueCols,
          p \in PeriodKeywords : analyze_seasonality(src, n, c, v, p) /\ UNCHANGED reads
    \/ \E src \in Sources, n \in LogicalNames, c \in TimeCols, v \in ValueCols,
          p1 \in DateRanges, p2 \in DateRanges :
              compare_periods(src, n, c, v, p1, p2) /\ UNCHANGED reads
    \/ \E src \in Sources, n \in LogicalNames, v \in ValueCols :
          analyze_distribution(src, n, v) /\ UNCHANGED reads
    \/ \E src \in Sources, n \in LogicalNames, vs \in ValueColLists :
          generate_correlation_matrix(src, n, vs) /\ UNCHANGED reads
    \/ \E src \in Sources, n \in LogicalNames, v \in ValueCols, m \in OutlierMethods :
          detect_outliers(src, n, v, m) /\ UNCHANGED reads

SpecAnalysis == InitAnalysis /\ [][NextAnalysis]_vars

\* The inputs of the queries: column lists (<< >>: none given), filter
\* clauses, filters (a dict: at most one clause per column), and the
\* requests made of them (limit 0: none given).
ColumnLists == {<< >>, <<"v", "zz", "date">>, <<"zz", "v">>, <<"zz">>}

c_gt       == <<"v", Dict({"gt"}, Num(1))>>
c_between  == <<"v", Dict({"between"}, Num(1))>>
c_scalar   == <<"v", Scalar(Num(2))>>
c_like     == <<"date", Dict({"like", "regex"}, Str("20"))>>
c_contains == <<"date", Dict({"contains", "like"}, Str("20"))>>
c_lte      == <<"date", Dict({"lte"}, Num(2019))>>
c_absent   == <<"zz", Dict({"like"}, Num(1))>>
c_range    == <<"v", Dict({"gte", "lte"}, Num(3))>>

FilterLists ==
    {<< >>, <<c_gt>>, <<c_between>>, <<c_like, c_gt>>, <<c_scalar, c_like>>,
     <<c_contains, c_between>>, <<c_lte>>, <<c_absent, c_gt>>, <<c_range>>}

Queries ==
    {<<cs, fs, 0>> : cs \in ColumnLists, fs \in FilterLists}
        \cup {<<cs, fs, 1>> : cs \in {<< >>}, fs \in {<< >>, <<c_gt>>}}

\* The data roots and alias tables the queries are made on.
InitQuery ==
    /\ \E config \in {"missing", "aliases"} : file_mapping = LoadMapping(config)
    /\ listing \in {<<n_g_csv, n_m_csv>>, <<n_g, n_g_xls>>}
    /\ data_cache = [n \in LogicalNames |-> NoRef]
    /\ heap = [n \in LogicalNames |-> << >>]
    /\ reads = [n \in LogicalNames |-> 0]
    /\ last = NoCall

\* The query layers, on a data root that stays as it is.
NextQuery ==
    \/ \E n \in LogicalNames : load_data(n) /\ UNCHANGED reads
    \/ \E n \in LogicalNames : get_time_series_data(n, "date", <<"v">>, 0, 0) /\ UNCHANGED reads
    \/ \E n \in LogicalNames, q \in Queries :
          query_data(n, q[1], q[2], q[3]) /\ UNCHANGED reads
    \/ \E n \in LogicalNames, q \in Queries :
          legacy_query_data(n, q[1], q[2], q[3]) /\ UNCHANGED reads

SpecQuery == InitQuery /\ [][NextQuery]_vars
\* The statistics on one data file, through DataAnalyzer(DataQuery(data_dir)).
InitStats ==
    /\ file_mapping = EmptyMapping
    /\ \E f \in StatFiles : listing = <<f>>
    /\ data_cache = [n \in LogicalNames \cup StatFiles |-> NoRef]
    /\ heap = [n \in LogicalNames \cup StatFiles |-> << >>]
    /\ reads = [n \in LogicalNames \cup StatFiles |-> 0]
    /\ last = NoCall

StatColLists == {<<"v">>, <<"w", "v">>}
StatRanges   == {<<2018, 2018>>, <<2018, 2019>>, <<2019, 2020>>, <<2020, 2021>>}

NextStats ==
    \/ \E f \in Range(listing), vs \in StatColLists, m \in TrendMethods :
          analyze_trend("DataQuery", f, "date", vs, m) /\ UNCHANGED reads
    \/ \E f \in Range(listing), p1 \in StatRanges, p2 \in StatRanges :
          compare_periods("DataQuery", f, "date", "v", p1, p2) /\ UNCHANGED reads
    \/ \E f \in Range(listing), m \in OutlierMethods :
          detect_outliers("DataQuery", f, "v", m) /\ UNCHANGED reads
    \/ \E f \in Range(listing), vs \in StatColLists :
          generate_correlation_matrix("DataQuery", f, vs) /\ UNCHANGED reads
    \/ \E f \in Range(listing), vs \in StatColLists :
          get_correlation_matrix(f, vs) /\ UNCHANGED reads

SpecStats == InitStats /\ [][NextStats]_vars

\* Time slices of one data file, through DataQuery(MappedDataLoader).
SeriesFiles  == {n_d_csv, n_t_csv, n_o_csv}
SeriesBounds == {0, 2019, 2020}       \* 0: no bound given
SeriesCols   == {<<"v">>, <<"zz">>}

InitSeries ==
    /\ file_mapping = EmptyMapping
    /\ \E f \in SeriesFiles : listing = <<f>>
    /\ data_cache = [n \in LogicalNames \cup SeriesFiles |-> NoRef]
    /\ heap = [n \in LogicalNames \cup SeriesFiles |-> << >>]
    /\ reads = [n \in LogicalNames \cup SeriesFiles |-> 0]
    /\ last = NoCall

NextSeries ==
    \/ \E f \in Range(listing) : load_data(f) /\ UNCHANGED reads
    \/ \E f \in Range(listing), c \in TimeCols, vs \in SeriesCols,
          s \in SeriesBounds, e \in SeriesBounds :
              get_time_series_data(f, c, vs, s, e) /\ UNCHANGED reads

SpecSeries == InitSeries /\ [][NextSeries]_vars

\* Loads alone, with and without aliases that cross the extensions, on a
\* data root that stays as it is.
InitParser ==
    /\ file_mapping \in {EmptyMapping, Mapping({n_g_xls, n_g_csv}, CrossAliases)}
    /\ listing \in Listings
    /\ data_cache = [n \in LogicalNames |-> NoRef]
    /\ heap = [n \in LogicalNames |-> << >>]
    /\ reads = [n \in LogicalNames |-> 0]
    /\ last = NoCall

NextParser == \E n \in LogicalNames : load_data(n) /\ UNCHANGED reads

SpecParser == InitParser /\ [][NextParser]_vars


(***************************************************************************)
(* Name Resolver: properties                                               *)
(***************************************************************************)
\* The requests that resolve their logical name and report the resolved name.
ResolvingOps == {"get_file_path", "load_data", "query_data", "get_time_series_data"}

HasAlias(n) ==
    /\ ~file_mapping.is_none
    /\ n \in file_mapping.keys
    /\ file_mapping.actual[n] # NoName

\* C1: a logical name that is a key of the alias table resolves to the
\* entry's configured actual file name, whatever files the data root holds.
C1_AliasWins ==
    (last.op \in ResolvingOps /\ HasAlias(last.name))
        => /\ last.actual = file_mapping.actual[last.name]
           /\ resolve_file_name(last.name) = Resolved(file_mapping.actual[last.name], {})

\* C1 witness: an alias key is resolved while the data root holds a file
\* named exactly like it and, listed first, a file whose name contains it.
C1_Witness ==
    /\ last.op = "get_file_path" /\ last.name = n_g_csv /\ HasAlias(n_g_csv)
    /\ listing = <<n_Ag_csv, n_g_csv>>
    /\ last.outcome = "return" /\ last.actual = n_m_csv

\* C2: a logical name that is no alias key and names an existing file
\* resolves to itself, also when other file names contain it.
C2_ExactFileUnchanged ==
    (/\ last.op \in ResolvingOps
     /\ ~file_mapping.is_none /\ last.name \notin file_mapping.keys
     /\ exists(last.name))
        => last.actual = last.name

\* C2 witness: the exact file is listed after a file whose name contains the
\* logical name, and resolution returns the logical name.
C2_Witness ==
    /\ last.op = "get_file_path" /\ last.name = n_g_csv
    /\ ~file_mapping.is_none /\ n_g_csv \notin file_mapping.keys
    /\ listing = <<n_Ag_csv, n_g_csv>>
    /\ last.outcome = "return" /\ last.actual = n_g_csv

\* C3: resolution never raises, for any alias configuration the loader can
\* be constructed with, and with no alias, exact file or substring match it
\* returns the logical name unchanged.
C3_ResolutionNeverRaises ==
    last.op = "get_file_path"
        => /\ last.outcome = "return"
           /\ (/\ ~HasAlias(last.name) /\ ~exists(last.name)
               /\ FirstMatch(last.name) = NoName) => last.actual = last.name

(***************************************************************************)
(* Table Loader: properties                                                *)
(***************************************************************************)
\* C4: a load_data call that finds its logical name in the cache makes no
\* filesystem access.
C4_HitTouchesNoDisk ==
    (last.op = "load_data" /\ last.hit) => last.fs = {}

Shape(t) == <<Len(t.rows), Len(t.columns)>>

\* C5: once load_data(n) has succeeded, the cache entry of n stays the same
\* object, of the same shape, and every later load_data(n) returns it.
C5_LoadIdempotent ==
    [][\A n \in LogicalNames :
          in_cache(n) =>
              /\ data_cache'[n] = data_cache[n]
              /\ Shape(heap'[n][data_cache[n].gen]) = Shape(Deref(data_cache[n]))
              /\ (last'.op = "load_data" /\ last'.name = n)
                     => (last'.outcome = "return" /\ last'.ref = data_cache[n])]_vars

\* C5 witness: a load is answered from the cache, with the same object, while
\* another logical name is cached too and the file has left the data root.
C5_Witness ==
    /\ last.op = "load_data" /\ last.hit /\ last.outcome = "return"
    /\ last.ref = data_cache[last.name] /\ last.ref # NoRef
    /\ \E m \in LogicalNames : m # last.name /\ in_cache(m)

\* C6: on one loader instance the file behind a logical name is read from
\* disk at most once, over any sequence of requests.
C6_ReadAtMostOnce == \A n \in LogicalNames : reads[n] <= 1

\* C7: the three failures of load_data (not found, line 64; unsupported
\* format, line 84; decode error, line 80) have three distinguishable error
\* kinds: two failed loads of different causes differ in the kind raised.
C7_ThreeErrorKinds ==
    [][(/\ last.op = "load_data" /\ last.outcome = "raise" /\ last.at \in {64, 80, 84}
        /\ last'.op = "load_data" /\ last'.outcome = "raise" /\ last'.at \in {64, 80, 84}
        /\ last.at # last'.at)
            => last.exc # last'.exc]_vars

\* C8: a failed load_data leaves the cache and the cached tables as they
\* were, and with them the result of every later load.
C8_FailedLoadKeepsCache ==
    [][(last'.op = "load_data" /\ last'.outcome = "raise")
          => /\ data_cache' = data_cache
             /\ heap' = heap
             /\ \A m \in LogicalNames : LoadOutcome(m)' = LoadOutcome(m)]_vars

\* C8 witness: a load fails on an undecodable file while the cache holds an entry.
C8_Witness ==
    /\ last.op = "load_data" /\ last.outcome = "raise" /\ last.at = 80
    /\ \E m \in LogicalNames : in_cache(m)

\* C9: a table stored in the cache is never modified after it is loaded.
C9_CachedTableImmutable ==
    [][\A n \in LogicalNames : \A k \in 1..Len(heap[n]) : heap'[n][k] = heap[n][k]]_vars

(***************************************************************************)
(* Statistics Engine: properties                                           *)
(***************************************************************************)
StatisticsOps ==
    {"analyze_trend", "analyze_seasonality", "compare_periods", "analyze_distribution",
     "generate_correlation_matrix", "detect_outliers"}

\* C10: a Statistics Engine operation whose problem is the shape of the data
\* (missing column, zero valid rows, empty date range, too few points)
\* returns a structured failure and does not raise.
C10_ShapeFaultsAreStructured ==
    (last.op \in StatisticsOps /\ last.fault # "") => last.outcome = "payload_error"

(***************************************************************************)
(* Error propagation and data flow: properties                             *)
(***************************************************************************)
\* The requests that load a table or its summary.
LoadingOps ==
    {"load_data", "MappedDataLoader.get_data_summary", "DataQuery.get_data_summary"}

\* The lines at which a load-time error is raised or turned into a payload:
\* file not found (64; 51), undecodable or unreadable file (80, 82; 86).
LoadErrorLines == {64, 80, 82, 51, 86}

\* C11: a load-time error reaches the caller of load_data / get_data_summary
\* as a failure payload, never as an exception.
C11_LoadErrorsArePayloads ==
    (last.op \in LoadingOps /\ last.at \in LoadErrorLines)
        => last.outcome = "payload_error"

\* The lines at which a DataAnalyzer operation stops on its summary: the
\* data_result["status"] test and the return of the summary's error.
SummaryFailureLines == {32, 33, 116, 117, 165, 166, 226, 227, 275, 276, 315, 316}

\* C14: when load_data returns a table for a logical name, every DataAnalyzer
\* operation on that name analyses the table of the file the name resolves to.
C14_AnalysisThroughLoader ==
    (last.op \in StatisticsOps /\ LoadOutcome(last.name).outcome = "return")
        => /\ last.actual = LoadOutcome(last.name).actual
           /\ last.at \notin SummaryFailureLines

\* First file of the data root, whatever its extension, whose lower-cased
\* name contains the lower-cased logical name; NoName when there is none.
AnyMatch(logical_name) ==
    LET hits == SelectSeq(listing, LAMBDA f : contains(lower(logical_name), lower(f)))
    IN  IF hits = << >> THEN NoName ELSE Head(hits)

\* C19: a logical name that is neither an alias key nor an existing file
\* resolves to the first file of the data root, in listing order and whatever
\* its extension, whose lower-cased name contains the lower-cased logical name.
C19_FirstSubstringMatch ==
    (/\ last.op = "get_file_path" /\ last.outcome = "return"
     /\ last.name \notin file_mapping.keys
     /\ ~exists(last.name)
     /\ AnyMatch(last.name) # NoName)
        => last.actual = AnyMatch(last.name)

\* A table with its date column parsed, so that a table compares equal to
\* itself before and after the in-place conversion of get_time_series_data.
Parsed(t) == IF has_col(t, "date") THEN coerce_column(t, "date") ELSE t

\* C20: a logical name resolves to the same file for the lifetime of the
\* loader, so the table load_data returns from the cache is the content of
\* the file the name resolves to at that call.
C20_CacheFollowsResolution ==
    (last.op = "load_data" /\ last.hit)
        => /\ exists(last.actual)
           /\ Parsed(Deref(last.ref)) = Parsed(FileTable(last.actual))

(***************************************************************************)
(* Query Layer: properties                                                 *)
(***************************************************************************)
\* The table query_data worked on: the cache entry of its logical name.
QueriedTable == Deref(data_cache[last.name])

\* The requested columns that exist in the table, in requested order.
Existing(t, columns) == SelectSeq(columns, LAMBDA c : has_col(t, c))

\* C12: query_data with a column list of which at least one column exists
\* returns exactly the requested columns that exist, in requested order, and
\* the rows (and the failure, if a filter fails) of the same query asked with
\* the existing columns only.
C12_ProjectionDropsAbsent ==
    (/\ last.op = "query_data" /\ in_cache(last.name)
     /\ Existing(QueriedTable, last.payload.columns) # << >>)
        => LET req    == last.payload
               kept   == Existing(QueriedTable, req.columns)
               expect == Query(QueriedTable, kept, req.filters, req.limit)
           IN  IF expect.exc # ""
                   THEN last.outcome = "raise" /\ last.exc = expect.exc
                   ELSE /\ last.outcome = "return"
                        /\ req.result.columns = kept
                        /\ req.result.rows = expect.table.rows
                        /\ \A i \in 1..Len(req.result.rows) :
                              \E j \in 1..Len(QueriedTable.rows) :
                                  \A c \in Range(kept) :
                                      req.result.rows[i][c] = QueriedTable.rows[j][c]

\* C12 witness: columns v, zz, date are asked of a table with columns date, v
\* and a filter keeps one of its two rows; v and date come back, in that order.
C12_Witness ==
    /\ last.op = "query_data" /\ last.outcome = "return"
    /\ last.payload.columns = <<"v", "zz", "date">>
    /\ last.payload.filters = <<c_like, c_gt>>
    /\ QueriedTable.columns = <<"date", "v">> /\ Len(QueriedTable.rows) = 2
    /\ last.payload.result.columns = <<"v", "date">>
    /\ Len(last.payload.result.rows) = 1

\* A clause whose condition is a dict with no recognized operator key.
Unrecognized(clause) ==
    clause[2].is_dict /\ \A i \in 1..Len(Recognized) : Recognized[i] \notin clause[2].keys

\* The query of the last request without its unrecognized clauses, on the
\* table the request loaded.
WithoutUnrecognized ==
    LET req  == last.payload
        rest == SelectSeq(req.filters, LAMBDA c : ~Unrecognized(c))
    IN  IF last.op = "query_data"
            THEN Query(QueriedTable, req.columns, rest, req.limit)
            ELSE LegacyQuery(legacy_load(last.name).table, req.columns, rest, req.limit)

\* The last request is a query that got its table.
QueryGotTable ==
    \/ last.op = "query_data" /\ in_cache(last.name)
    \/ last.op = "DataLoader.query_data" /\ legacy_load(last.name).outcome = "return"

\* C13: a filter clause whose condition dict has no key of eq, ne, gt, lt,
\* gte, lte, in, contains removes no rows and raises nothing: the query
\* gives what it gives without that clause, the other clauses applied.
C13_UnknownOperatorIgnored ==
    (QueryGotTable /\ \E i \in 1..Len(last.payload.filters) : Unrecognized(last.payload.filters[i]))
        => IF WithoutUnrecognized.exc # ""
               THEN /\ last.outcome = "raise"
                    /\ last.exc = WithoutUnrecognized.exc /\ last.at = WithoutUnrecognized.at
               ELSE /\ last.outcome = "return"
                    /\ last.payload.result = WithoutUnrecognized.table

\* C13 witness: of the clauses {date: {like, regex}} and {v: {gt: 1}} on a
\* table of two rows, the first removes nothing and the second removes a row.
C13_Witness ==
    /\ last.op = "query_data" /\ last.outcome = "return"
    /\ last.payload.columns = << >>
    /\ last.payload.filters = <<c_like, c_gt>>
    /\ Len(QueriedTable.rows) = 2
    /\ Len(last.payload.result.rows) = 1
    /\ last.payload.result.rows[1].v.n > 1

(***************************************************************************)
(* Statistics Engine: numerical properties                                 *)
(***************************************************************************)
Reverse(s) == [i \in 1..Len(s) |-> s[Len(s) + 1 - i]]

\* For values y at x = 1..n: n*Sum(x*y) - Sum(x)*Sum(y), n*Sum(x*x) - Sum(x)^2
\* and n*Sum(y*y) - Sum(y)^2; the slope of the fitted line is Cxy/Cxx and the
\* R-squared of the fit is Cxy^2 / (Cxx*Cyy).
Cxy(y) == Len(y) * IntSum([i \in 1..Len(y) |-> i * y[i]])
              - IntSum([i \in 1..Len(y) |-> i]) * IntSum(y)
Cxx(y) == Len(y) * IntSum([i \in 1..Len(y) |-> i * i])
              - IntSum([i \in 1..Len(y) |-> i]) * IntSum([i \in 1..Len(y) |-> i])
Cyy(y) == Len(y) * IntSum([i \in 1..Len(y) |-> y[i] * y[i]]) - IntSum(y) * IntSum(y)

\* The series of the generated file of the last request, oldest year first.
LastSeries == Reverse(CHOOSE s \in Series : SeriesFile(s) = last.name)

\* The linear-trend entries of column v in the last result.
LinearOfV == {e[3] : e \in {e \in last.payload.results : e[1] = "v" /\ e[2] = "linear"}}

RECURSIVE InYears(_, _, _)
InYears(rows, period, i) ==
    IF i > Len(rows) THEN << >>
    ELSE (IF period[1] <= Year(rows[i].date.s) /\ Year(rows[i].date.s) <= period[2]
             THEN <<rows[i].v.n>> ELSE << >>) \o InYears(rows, period, i + 1)

\* C16: for two non-empty ranges compare_periods reports
\* mean_change_rate = (mean2 - mean1) / mean1, and 0 when mean1 is 0; for
\* means 10 and 15 the rate is 0.5.
C16_MeanChangeRate ==
    (last.op = "compare_periods" /\ last.outcome = "return")
        => LET d1 == InYears(FileTable(last.name).rows, last.payload.period1, 1)
               d2 == InYears(FileTable(last.name).rows, last.payload.period2, 1)
               s1 == IntSum(d1)
               s2 == IntSum(d2)
               rate == last.payload.mean_change_rate
           IN  /\ d1 # << >> /\ d2 # << >>
               /\ s1 = 0 => rate = R(0)
               \* rate = (s2/n2 - s1/n1) / (s1/n1), cross-multiplied
               /\ s1 # 0 => rate.num * (s1 * Len(d2))
                               = rate.den * (s2 * Len(d1) - s1 * Len(d2))
               /\ (last.payload.mean1 = R(10) /\ last.payload.mean2 = R(15))
                     => rate = Frac(1, 2)

\* C16 witness: the years of mean 10 compared with the years of mean 15.
C16_Witness ==
    /\ last.op = "compare_periods" /\ last.outcome = "return" /\ last.name = n_p_csv
    /\ last.payload.mean1 = R(10) /\ last.payload.mean2 = R(15)
    /\ last.payload.mean_change_rate = Frac(1, 2)

\* C16 witness of the guarded case: a first range of mean 0.
C16_WitnessZero ==
    /\ last.op = "compare_periods" /\ last.outcome = "return"
    /\ last.payload.mean1 = R(0) /\ last.payload.mean2 # R(0)
    /\ last.payload.mean_change_rate = R(0)

\* The numbers of column v of the file of the last request (none is missing
\* in the files of the statistics).
LastV == [i \in 1..Len(FileTable(last.name).rows) |-> FileTable(last.name).rows[i].v.n]

\* Four times the quantile k/4 of sorted integers.
Quantile4(d, k) ==
    LET h == (Len(d) - 1) * k
    IN  IF h % 4 = 0 THEN 4 * d[(h \div 4) + 1]
        ELSE (4 - (h % 4)) * d[(h \div 4) + 1] + (h % 4) * d[(h \div 4) + 2]

\* x is below Q1 - 1.5*IQR or above Q3 + 1.5*IQR (all taken eight times).
OutsideFences(d, x) ==
    LET sorted == SortSeq(d, LAMBDA a, b : a < b)
        q1     == Quantile4(sorted, 1)
        q3     == Quantile4(sorted, 3)
    IN  8 * x < 5 * q1 - 3 * q3 \/ 8 * x > 5 * q3 - 3 * q1

\* |z| > 3 for x among d: (x - S/n)^2 > 9 * V / (n * (n - 1)), where
\* V = n * Sum(x^2) - S^2 is positive.
BeyondThreeSigma(d, x) ==
    LET n == Len(d)
        S == IntSum(d)
        V == n * IntSum([i \in 1..n |-> d[i] * d[i]]) - S * S
    IN  n > 1 /\ V > 0 /\ (n * x - S) * (n * x - S) * (n - 1) > 9 * n * V

\* C17: on a column with a non-missing value, detect_outliers with method iqr
\* reports exactly the values below Q1 - 1.5*IQR or above Q3 + 1.5*IQR, and
\* with method zscore exactly those with |z| > 3, each with the count and the
\* percentage count/len*100; for [1,2,3,4,100] IQR flags 100 and z-score
\* flags nothing.
C17_OutlierRules ==
    (last.op = "detect_outliers" /\ last.outcome = "return")
        => LET d == LastV
               p == last.payload
           IN  /\ p.method = "IQR"
                     => p.outliers = SelectSeq(d, LAMBDA x : OutsideFences(d, x))
               /\ p.method = "Z-score"
                     => p.outliers = SelectSeq(d, LAMBDA x : BeyondThreeSigma(d, x))
               /\ p.outlier_count = Len(p.outliers)
               /\ p.outlier_percentage.num * Len(d)
                     = p.outlier_percentage.den * 100 * p.outlier_count
               /\ last.name = n_o_csv
                     => p.outliers = IF p.method = "IQR" THEN <<100>> ELSE << >>

\* C17 witness: IQR detection on 1, 2, 3, 4, 100 flags 100, one value in five.
C17_Witness ==
    /\ last.op = "detect_outliers" /\ last.outcome = "return" /\ last.name = n_o_csv
    /\ last.payload.method = "IQR" /\ last.payload.outliers = <<100>>
    /\ last.payload.outlier_count = 1 /\ last.payload.outlier_percentage = R(20)

\* C17 witness of a value beyond three deviations: one 1 among ten 0s.
C17_WitnessZ ==
    /\ last.op = "detect_outliers" /\ last.outcome = "return" /\ last.name = n_z_csv
    /\ last.payload.method = "Z-score" /\ last.payload.outliers = <<1>>

CorrelationOps == {"generate_correlation_matrix", "get_correlation_matrix"}

\* C18: a column pair is reported as a strong correlation exactly when the
\* absolute value of its correlation is strictly greater than 0.7, once per
\* unordered pair, by DataAnalyzer.generate_correlation_matrix and by
\* DataQuery.get_correlation_matrix alike.
C18_StrongAboveThreshold ==
    (last.op \in CorrelationOps /\ last.outcome = "return")
        => last.payload.pairs
              = {p \in UpperPairs(last.payload.columns) :
                    Above07(corr(FileTable(last.name), p[1], p[2]))}

(***************************************************************************)
(* Table Loader: cache lifecycle, encodings and parser choice              *)
(***************************************************************************)
\* C21: the cache only grows: an entry is created under the logical name of
\* the request, by a request that read the file, and is never removed or
\* replaced afterwards; two logical names that resolve to the same file get
\* two entries, each from its own read.
C21_CacheOnlyGrows ==
    [][\A n \in DOMAIN data_cache :
          /\ in_cache(n) => data_cache'[n] = data_cache[n]
          /\ (~in_cache(n) /\ data_cache'[n] # NoRef)
                => /\ last'.name = n /\ ~last'.hit /\ "read" \in last'.fs
                   /\ last'.nreads >= 1
                   /\ data_cache'[n] \notin {data_cache[m] : m \in DOMAIN data_cache}]_vars

\* C21 witness: g and g.csv both resolved to g.csv and hold two entries.
C21_Witness ==
    /\ in_cache(n_g) /\ in_cache(n_g_csv)
    /\ data_cache[n_g] # data_cache[n_g_csv]
    /\ Deref(data_cache[n_g]) = FileTable(n_g_csv)
    /\ Deref(data_cache[n_g_csv]) = FileTable(n_g_csv)

\* C22: for a comma-separated file load_data tries UTF-8, GBK, GB2312 in that
\* order, returns and caches the table of the first encoding that parses,
\* tries no encoding after a success, and fails only after all three failed.
C22_EncodingFallback ==
    (last.op = "load_data" /\ last.payload.parser = "read_csv")
        => LET tried == last.payload.tried
               k     == Len(tried)
           IN  /\ k \in 1..3
               /\ tried = SubSeq(<<"utf-8", "gbk", "gb2312">>, 1, k)
               /\ \A i \in 1..(k - 1) : ~read_csv_ok(last.actual, tried[i])
               /\ last.nreads = k
               /\ last.outcome = "return"
                     => /\ read_csv_ok(last.actual, tried[k])
                        /\ Deref(last.ref) = FileTable(last.actual)
                        /\ data_cache[last.name] = last.ref
               /\ last.outcome = "raise"
                     => /\ k = 3 /\ ~read_csv_ok(last.actual, tried[k])
                        /\ last.at = 80 /\ ~in_cache(last.name)

\* C22 witness: a GBK file is read at the second encoding, the third untried.
C22_Witness ==
    /\ last.op = "load_data" /\ last.outcome = "return" /\ last.actual = n_m_csv
    /\ last.payload.tried = <<"utf-8", "gbk">>
    /\ Deref(data_cache[last.name]) = FileTable(n_m_csv)

\* C22 witness of exhaustion: the three encodings fail and the load raises.
C22_WitnessExhausted ==
    /\ last.op = "load_data" /\ last.outcome = "raise" /\ last.at = 80
    /\ last.payload.tried = <<"utf-8", "gbk", "gb2312">>

\* The characters of a name after its last dot (the whole name without one).
RECURSIVE Extension(_)
Extension(name) ==
    IF name = << >> \/ "." \notin Range(name) THEN name
    ELSE IF Head(name) = "." /\ "." \notin Range(Tail(name)) THEN Tail(name)
    ELSE Extension(Tail(name))

IsCsvName(name)         == "." \in Range(name) /\ Extension(name) = <<"c", "s", "v">>
IsSpreadsheetName(name) ==
    "." \in Range(name) /\ Extension(name) \in {<<"x", "l", "s", "x">>, <<"x", "l", "s">>}

\* C30: a load that reaches the parsers reads the file as comma-separated
\* text whenever the logical or the resolved name ends in .csv, as a
\* spreadsheet only when neither does and one of them ends in .xlsx or .xls,
\* and fails as an unsupported format only when neither name has a recognized
\* extension and the resolved file exists.
C30_ParserFromBothNames ==
    (last.op = "load_data" /\ last.outcome # "" /\ ~last.hit /\ last.at \notin {34, 35, 64})
        => LET csv == IsCsvName(last.name) \/ IsCsvName(last.actual)
               xl  == IsSpreadsheetName(last.name) \/ IsSpreadsheetName(last.actual)
           IN  /\ exists(last.actual)
               /\ csv => /\ last.at \in {0, 80} /\ last.nreads \in 1..3
                         /\ last.outcome = "return"
                               => Deref(last.ref) = FileTable(last.actual)
               /\ (~csv /\ xl) => last.at \in {0, 82} /\ last.nreads = 1
               /\ (~csv /\ ~xl)
                     => last.at = 84 /\ last.exc = "ValueError" /\ last.nreads = 0
               /\ last.at = 84 => (~csv /\ ~xl)

\* C30 witness: the logical name g.xls, aliased to the file g.csv, is read as
\* comma-separated text.
C30_Witness ==
    /\ last.op = "load_data" /\ last.outcome = "return" /\ ~last.hit
    /\ last.name = n_g_xls /\ last.actual = n_g_csv
    /\ last.payload.parser = "read_csv"
    /\ Deref(last.ref) = FileTable(n_g_csv)

\* C30 witness of the unsupported format: the existing file g.
C30_WitnessUnsupported ==
    /\ last.op = "load_data" /\ last.at = 84 /\ last.name = n_g /\ last.actual = n_g
    /\ exists(n_g)

(***************************************************************************)
(* Query Layer: projection and filter order                                *)
(***************************************************************************)
\* C23: query_data with a non-empty column list of which no column exists in
\* the table (no filter, no limit) returns a table with zero columns and all
\* the rows of the input.
C23_NoExistingColumnGivesNoColumns ==
    (/\ last.op = "query_data" /\ last.outcome = "return" /\ in_cache(last.name)
     /\ last.payload.columns # << >>
     /\ Existing(QueriedTable, last.payload.columns) = << >>
     /\ last.payload.filters = << >> /\ last.payload.limit = 0)
        => /\ last.payload.result.columns = << >>
           /\ Len(last.payload.result.rows) = Len(QueriedTable.rows)

\* The clauses of the last query on a column of the loaded table that is not
\* among the projected columns, and the other clauses.
HiddenClause(clause) ==
    /\ has_col(QueriedTable, clause[1])
    /\ clause[1] \notin Range(Existing(QueriedTable, last.payload.columns))

\* C28: query_data projects before it filters and tests the filter columns
\* against the projected table: a filter on a column of the loaded table that
\* is not projected is skipped, so the result is that of the query without it
\* and keeps the rows that filter would have removed.
C28_ProjectionBeforeFilters ==
    (/\ last.op = "query_data" /\ in_cache(last.name)
     /\ Existing(QueriedTable, last.payload.columns) # << >>)
        => LET req    == last.payload
               shown  == SelectSeq(req.filters, LAMBDA c : ~HiddenClause(c))
               expect == Query(QueriedTable, req.columns, shown, req.limit)
           IN  /\ IF expect.exc # ""
                     THEN last.outcome = "raise" /\ last.exc = expect.exc
                     ELSE last.outcome = "return" /\ req.result = expect.table
               /\ (shown = << >> /\ req.limit = 0)
                     => /\ last.outcome = "return"
                        /\ Len(req.result.rows) = Len(QueriedTable.rows)

\* C28 witness: v is projected and the filter date contains "20" is given;
\* the row dated "n/a" is in the result.
C28_Witness ==
    /\ last.op = "query_data" /\ last.outcome = "return" /\ in_cache(last.name)
    /\ last.payload.columns = <<"zz", "v">>
    /\ last.payload.filters = <<c_contains, c_between>>
    /\ has_col(QueriedTable, "date") /\ QueriedTable.dtypes["date"] = "object"
    /\ Len(last.payload.result.rows) = Len(QueriedTable.rows)
    /\ \E j \in 1..Len(QueriedTable.rows) :
          /\ ~Keep(QueriedTable.rows[j].date, "contains", Str("20"))
          /\ last.payload.result.rows[j].v = QueriedTable.rows[j].v

\* The key of a condition dict that comes first in eq, ne, gt, lt, gte, lte,
\* in, contains ("" when it has none of them).
KeyByPriority(ks) ==
    IF "eq" \in ks THEN "eq" ELSE IF "ne" \in ks THEN "ne"
    ELSE IF "gt" \in ks THEN "gt" ELSE IF "lt" \in ks THEN "lt"
    ELSE IF "gte" \in ks THEN "gte" ELSE IF "lte" \in ks THEN "lte"
    ELSE IF "in" \in ks THEN "in" ELSE IF "contains" \in ks THEN "contains" ELSE ""

\* A clause whose condition dict holds several recognized operator keys.
SeveralKeys(clause) ==
    /\ clause[2].is_dict
    /\ Cardinality(clause[2].keys \cap {"eq", "ne", "gt", "lt", "gte", "lte", "in", "contains"}) >= 2

\* The clause with the first of its recognized keys alone.
FirstKeyOnly(clause) ==
    IF SeveralKeys(clause)
        THEN <<clause[1], Dict({KeyByPriority(clause[2].keys)}, clause[2].val)>>
        ELSE clause

\* The query of the last request, each clause with its first key alone, on
\* the table the request loaded.
WithFirstKeysOnly ==
    LET req  == last.payload
        only == [i \in 1..Len(req.filters) |-> FirstKeyOnly(req.filters[i])]
    IN  IF last.op = "query_data"
            THEN Query(QueriedTable, req.columns, only, req.limit)
            ELSE LegacyQuery(legacy_load(last.name).table, req.columns, only, req.limit)

\* The table the last query got.
GotTable ==
    IF last.op = "query_data" THEN QueriedTable ELSE legacy_load(last.name).table

\* C29: of several recognized operator keys in one condition dict, query_data
\* (of either query layer) applies exactly the first in the order eq, ne, gt,
\* lt, gte, lte, in, contains and ignores the others: {gte: a, lte: a} keeps
\* the rows with a value of at least a.
C29_FirstOperatorOnly ==
    (QueryGotTable /\ \E i \in 1..Len(last.payload.filters) : SeveralKeys(last.payload.filters[i]))
        => /\ IF WithFirstKeysOnly.exc # ""
                  THEN last.outcome = "raise" /\ last.exc = WithFirstKeysOnly.exc
                  ELSE last.outcome = "return"
                          /\ last.payload.result = WithFirstKeysOnly.table
           /\ (/\ last.payload.filters = <<c_range>> /\ last.payload.columns = << >>
               /\ last.payload.limit = 0 /\ has_col(GotTable, "v")
               /\ \A j \in 1..Len(GotTable.rows) : GotTable.rows[j].v.tag = "int")
                 => /\ last.outcome = "return"
                    /\ last.payload.result.rows
                          = SelectSeq(GotTable.rows, LAMBDA r : r.v.n >= c_range[2].val.n)

\* C29 witness: {v: {gte: 3, lte: 3}} on the values 3 and 4 keeps both.
C29_Witness ==
    /\ QueryGotTable /\ last.outcome = "return"
    /\ last.payload.filters = <<c_range>> /\ last.payload.columns = << >>
    /\ Len(GotTable.rows) = 2 /\ Len(last.payload.result.rows) = 2
    /\ \E j \in 1..2 : last.payload.result.rows[j].v.n > c_range[2].val.n

(***************************************************************************)
(* Query Layer: time slices                                                *)
(***************************************************************************)
\* The last request is a time slice that returned a table.
SliceReturned == last.op = "get_time_series_data" /\ last.outcome = "return"

\* The rows of the table the slice worked on (the cache entry, its time
\* column converted) that lie within the bounds of the request, in table order.
SliceInput ==
    LET req == last.payload
    IN  SelectSeq(QueriedTable.rows,
                  LAMBDA r : /\ req.start_date # 0 =>
                                   (r[req.time_col].tag = "ts" /\ r[req.time_col].n >= req.start_date)
                             /\ req.end_date # 0 =>
                                   (r[req.time_col].tag = "ts" /\ r[req.time_col].n <= req.end_date))

\* C24: get_time_series_data returns its rows in ascending order of the time
\* column, and rows with equal timestamps keep the relative order they had in
\* the loaded table (here: the result is the stable ascending sort of the
\* rows within the bounds).
C24_StableAscending ==
    SliceReturned
        => LET req    == last.payload
               stable == SortSeq(SelectSeq(SliceInput, LAMBDA r : r[req.time_col].tag = "ts"),
                                 LAMBDA a, b : a[req.time_col].n < b[req.time_col].n)
                             \o SelectSeq(SliceInput, LAMBDA r : r[req.time_col].tag # "ts")
           IN  /\ Len(req.result.rows) = Len(stable)
               /\ \A i \in 1..Len(stable) :
                     \A c \in Range(req.result.columns) : req.result.rows[i][c] = stable[i][c]

\* The part of C24 the code does guarantee: timestamps never decrease along
\* the result, and the rows without one come last.
AscendingTimes ==
    SliceReturned
        => LET req == last.payload
               ts(i) == req.result.rows[i][req.time_col]
           IN  \A i, j \in 1..Len(req.result.rows) :
                  i < j => /\ ts(i).tag # "ts" => ts(j).tag # "ts"
                           /\ (ts(i).tag = "ts" /\ ts(j).tag = "ts") => ts(i).n <= ts(j).n

\* The rows of a table without a timestamp in a column.
NullTimes(rows, c) == SelectSeq(rows, LAMBDA r : r[c].tag = "NaT")

\* C25: in get_time_series_data an unparseable time value becomes a null
\* timestamp instead of an error; a row with a null timestamp is never in the
\* result when a start or an end bound is given, and stays in it when neither
\* is given.
C25_NullTimestamps ==
    (last.op = "get_time_series_data" /\ in_cache(last.name) /\ last.at # 240)
        => LET req  == last.payload
               tc   == req.time_col
               file == FileTable(last.actual)
           IN  /\ last.outcome = "return"
               /\ Len(QueriedTable.rows) = Len(file.rows)
               /\ \A i \in 1..Len(file.rows) :
                     IF Unparseable(file.rows[i][tc])
                         THEN QueriedTable.rows[i][tc].tag = "NaT"
                         ELSE QueriedTable.rows[i][tc].tag = "ts"
               /\ (req.start_date # 0 \/ req.end_date # 0)
                     => NullTimes(req.result.rows, tc) = << >>
               /\ (req.start_date = 0 /\ req.end_date = 0)
                     => /\ Len(req.result.rows) = Len(QueriedTable.rows)
                        /\ Len(NullTimes(req.result.rows, tc))
                              = Len(NullTimes(QueriedTable.rows, tc))

\* C25 witness: with a start bound the row dated "n/a" is left out.
C25_Witness ==
    /\ SliceReturned /\ last.name = n_d_csv
    /\ last.payload.start_date = 2019 /\ last.payload.end_date = 0
    /\ NullTimes(QueriedTable.rows, "date") # << >>
    /\ Len(last.payload.result.rows) = 4
    /\ NullTimes(last.payload.result.rows, "date") = << >>

\* C25 witness without bounds: the row dated "n/a" is returned, last.
C25_WitnessUnbounded ==
    /\ SliceReturned /\ last.name = n_d_csv
    /\ last.payload.start_date = 0 /\ last.payload.end_date = 0
    /\ Len(last.payload.result.rows) = 5
    /\ last.payload.result.rows[5].date.tag = "NaT"

(***************************************************************************)
(* Statistics Engine: per-column results and keywords                      *)
(***************************************************************************)
\* C26: analyze_trend returns one entry per requested value column:
\* statistics when the column has at least 2 valid points, a failure entry
\* when it has fewer or does not exist in the table.
C26_OneEntryPerColumn ==
    (last.op = "analyze_trend" /\ last.outcome = "return")
        => LET req == last.payload
               t   == SummaryTable(last.name)
           IN  \A i \in 1..Len(req.value_cols) :
                  LET col     == req.value_cols[i]
                      entries == {e \in req.results : e[1] = col}
                      enough  == has_col(t, col) /\ Len(NotNull(t, col)) >= 2
                  IN  /\ Cardinality(entries) = 1
                      /\ \A e \in entries : e[2] = "error" <=> ~enough

\* The lines reached with an unsupported keyword: the else branch of the
\* period chain of analyze_seasonality and of the method chain of
\* detect_outliers.
UnsupportedKeywordLines == {144, 358}

\* C27: an unsupported keyword is reported the same way by analyze_seasonality
\* (period) and detect_outliers (method): a failure payload is returned,
\* nothing is raised and no statistics are returned.
C27_UnsupportedKeywordIsPayload ==
    (last.op \in {"analyze_seasonality", "detect_outliers"} /\ last.at \in UnsupportedKeywordLines)
        => last.outcome = "payload_error" /\ last.exc = ""

\* C30 witness of a .csv name for a workbook: the text parser is chosen, every
\* encoding fails on the workbook's bytes and the load raises.
C30_WitnessCsvName ==
    /\ last.op = "load_data" /\ last.name = n_g_csv /\ last.actual = n_g_xls
    /\ last.payload.parser = "read_csv" /\ last.at = 80

====
